---------------------------- MODULE Spec2Model ----------------------------
(***************************************************************************)
(* Denormalized multi-index data-access layer on a key-value store        *)
(* (bm-hsh/nosql-course-redis).  The four use cases (e_commerce,          *)
(* social_media, movies, iot) keep records (HASH), relationship lists      *)
(* (LIST), partition sets (SET) and rankings (SORTED SET) in one Redis     *)
(* database under disjoint key prefixes.  Every function of queries.py is  *)
(* modelled command by command: one disjunct per Redis command, in the     *)
(* order the function issues them, so that the states between two          *)
(* commands of one call are states of the model.                           *)
(*                                                                         *)
(* A HASH is a function from the field names that are set to their         *)
(* values, a SORTED SET a function from its members to their scores, a     *)
(* LIST a sequence; an absent key is the empty function << >>.             *)
(***************************************************************************)
EXTENDS Integers, Sequences, FiniteSets, TLC

(***************************************************************************)
(* Bounds of the model.                                                    *)
(***************************************************************************)
\* longest relationship list (customer:<c>:orders, social:user:<u>:posts)
MaxList == 2
\* most likes and most retweets of a post
MaxLikes == 1
\* largest post_count of a user and largest usage count of a hashtag
MaxCount == 2

\* longest cast list and longest crew list of a movie
MaxCredits == 1
\* update_movie_rating_stats: fewest ratings of a movie in movie:top_rated
MinRatings == 5

\* import_readings: a battery voltage below it raises an alert (tenths of a volt)
LOW_BATTERY_THRESHOLD == 20
\* import_readings: most alerts pushed by one run
AlertLimit == 1000
\* largest limit of a range query
MaxLimit == 2
\* most lines of an input file
MaxRows == 2
\* largest n of a top-n query
MaxTop == 3

\* a source file: whether it exists (os.path.exists) and its lines
File(rows) == [exists |-> TRUE, rows |-> rows]
Absent == [exists |-> FALSE, rows |-> << >>]

SeqsUpTo(S, n) == UNION {[1..k -> S] : k \in 0..n}
Min(a, b) == IF a <= b THEN a ELSE b

\* Python None: the reply to a read of an absent field or member
None == "none"

OrderIds == {"o1", "o2"}
Customers == {"c1", "c2"}
Statuses == {"created", "shipped"}
ReviewScores == {5}
Products == {"A", "B", "C"}

PostIds == {"p1"}
\* import_posts numbers the posts of a file: post_id = str(count + 1)
LoadedPostIds == {ToString(i) : i \in 1..MaxRows}
Users == {"u1", "u2"}
Tags == {"a", "b"}
Texts == {"hello", "#a #a", "#A #b"}
Platforms == {"twitter"}
Countries == {"unknown"}
\* sentiment arguments as callers pass them
Sentiments == {"neutral", "Positive"}

MovieIds == {"m1"}
MovieUsers == {"u1", "u2", "u3", "u4", "u5"}
\* the ratings a user gives: u1 changes their mind, the others do not
RatingsOf(u) == IF u = "u1" THEN {1, 5} ELSE {5}
Titles == {"Heat"}
GenreNames == {"Drama"}
GenreLists == {<< >>, <<"Drama">>}
ActorNames == {"Tom Hanks"}
DirectorNames == {"Ron Howard"}
\* rows of credits.csv: the cast and the directors of a movie
CreditsRows == {[cast |-> <<"Tom Hanks">>, directors |-> <<"Ron Howard">>]}

\* the keyword arguments of update_movie
MovieUpdates == {<< >>, [title |-> "Ronin"]}

MoteIds == {1}
SensorStatuses == {"maintenance"}
\* positions (pos_x, pos_y)
Positions == {<<1, 2>>}
Temperatures == {20, 30}
\* epochs, in half seconds
Epochs == {0, 1, 2}

VARIABLES
  app,            \* the use case whose queries.py is running
  pc,             \* pc[w]: "idle", or the next Redis command of writer w's call
  call,           \* call[w]: the running (or last completed) call of writer w:
                  \*          its name, arguments and local variables
  scenario,       \* history: progress of the create/ship/delete scenario of §8
  \* ---- e_commerce keys
  order,          \* order:<id>            HASH  customer_id, status
  custOrders,     \* customer:<c>:orders   LIST  of order ids
  statusSet,      \* order:status:<s>      SET   of order ids
  orderAll,       \* order:all             SET   of order ids
  reviewScores,   \* review:scores         ZSET  order id -> score
  orderReview,    \* order:<id>:review     HASH  score, comment
  orderItems,     \* order:<id>:items      LIST  (written by the loader only)
  orderPayments,  \* order:<id>:payments   LIST  (written by the loader only)
  product,        \* product:<id>          HASH  price (category left to category:<c>:products)
  productSales,   \* product:sales         ZSET  product id -> items sold
  productRevenue, \* product:revenue       ZSET  product id -> revenue
  categoryRevenue,\* category:revenue      ZSET  category -> revenue
  socialUserAll,  \* social:user:all       SET   of user ids (written by the loader only)
  \* ---- social_media keys
  post,           \* post:<id>             HASH  platform, country, likes, retweets,
                  \*                             sentiment, user_id, engagement
                  \*                             (text and timestamp left out)
  postHashtags,   \* post:<id>:hashtags    SET   of tags
  hashtagPosts,   \* hashtag:<t>:posts     SET   of post ids
  hashtagTrending,\* hashtag:trending      ZSET  tag -> usage count
  userPosts,      \* social:user:<u>:posts LIST  of post ids
  socialUser,     \* social:user:<u>       HASH  post_count
  platformPosts,  \* platform:<x>:posts    SET   of post ids
  countryPosts,   \* country:<x>:posts     SET   of post ids
  sentimentPosts, \* sentiment:<x>:posts   SET   of post ids
  postAll,        \* post:all              SET   of post ids
  postTrending,   \* post:trending         ZSET  post id -> engagement
  \* ---- movies keys
  movie,          \* movie:<id>            HASH  title, vote_average, vote_count,
                  \*                             user_rating_avg, user_rating_count
                  \*                             (release_date and overview left out)
  movieGenres,    \* movie:<id>:genres     SET   of genre names
  genreMovies,    \* genre:<g>:movies      SET   of movie ids
  movieAll,       \* movie:all             SET   of movie ids
  movieTopRated,  \* movie:top_rated       ZSET  movie id -> average rating
  moviePopular,   \* movie:popular         ZSET  (written by the loader only)
  userRatings,    \* user:<u>:ratings      ZSET  movie id -> rating
  movieRatings,   \* movie:<id>:ratings    ZSET  user id -> rating
  user,           \* user:<u>              HASH  user_id
  userAll,        \* user:all              SET   of user ids
  movieCast,      \* movie:<id>:cast       LIST  of actor names
  movieCrew,      \* movie:<id>:crew       LIST  of "Director: <name>"
  actorMovies,    \* actor:<a>:movies      SET   of movie ids
  directorMovies, \* director:<d>:movies   SET   of movie ids
  movieKeywords,  \* movie:<id>:keywords   SET   (written by the loader only)
  \* ---- iot keys
  sensor,         \* sensor:<id>           HASH  mote_id, pos_x, pos_y, status, type
  sensorAll,      \* sensor:all            SET   of sensor ids
  sensorAvgTemp,  \* sensor:avg:temperature ZSET sensor id -> average temperature
  sensorReadings, \* sensor:<id>:readings  ZSET  reading -> epoch
  sensorLatest,   \* sensor:<id>:latest    HASH  temperature, timestamp, time
  sensorConnectivity, \* sensor:<id>:connectivity HASH (written by the loader only)
  sensorAlerts    \* sensor:alerts         LIST  of low-battery alerts

orderVars == <<order, custOrders, statusSet, orderAll, reviewScores,
               orderReview, orderItems, orderPayments>>
postVars == <<post, postHashtags, hashtagPosts, hashtagTrending, userPosts,
              socialUser, platformPosts, countryPosts, sentimentPosts, postAll,
              postTrending>>
movieVars == <<movie, movieGenres, genreMovies, movieAll, movieTopRated,
               moviePopular, userRatings, movieRatings, user, userAll, movieCast,
               movieCrew, actorMovies, directorMovies, movieKeywords>>
sensorVars == <<sensor, sensorAll, sensorAvgTemp, sensorReadings, sensorLatest,
                sensorConnectivity, sensorAlerts>>
loaderVars == <<product, productSales, productRevenue, categoryRevenue, socialUserAll>>
vars == <<app, pc, call, scenario, orderVars, postVars, movieVars, sensorVars,
          loaderVars>>

Writers == DOMAIN pc
NoCall == [op |-> "none", id |-> None]

(***************************************************************************)
(* The Redis commands and the Python idioms the functions use.             *)
(***************************************************************************)
\* Python truthiness of a value read from the store: `if old_status:`
Truthy(v) == v # None /\ v # ""

\* an HSET that stores the mapping in place of the hash
HSet_replace(h, m) == m

\* HSET key mapping: the named fields are set, every other field is kept
HSet(h, m) == [f \in DOMAIN h \cup DOMAIN m |-> IF f \in DOMAIN m THEN m[f] ELSE h[f]]

\* HGET key field, and dict.get(field) on the reply of HGETALL
HGet(h, f) == IF f \in DOMAIN h THEN h[f] ELSE None

\* a ZADD that does not change the score of a member it finds (ZADD NX)
ZAdd_nx(z, m, s) == IF m \in DOMAIN z THEN z ELSE [k \in DOMAIN z \cup {m} |-> IF k = m THEN s ELSE z[k]]

\* ZADD key {member: score}: insert, or overwrite the score
ZAdd(z, m, s) == [k \in DOMAIN z \cup {m} |-> IF k = m THEN s ELSE z[k]]

\* HINCRBY key field d: an absent field counts from 0
HIncrBy(h, f, d) == HSet(h, [x \in {f} |-> (IF f \in DOMAIN h THEN h[f] ELSE 0) + d])

\* the score of a member, 0 for an absent one
ZScore0(z, m) == IF m \in DOMAIN z THEN z[m] ELSE 0

\* ZINCRBY key d member: an absent member counts from 0
ZIncrBy(z, m, d) == ZAdd(z, m, ZScore0(z, m) + d)

\* ZREM key member
ZRem(z, m) == [k \in DOMAIN z \ {m} |-> z[k]]

\* a push that appends at the tail of the list
LPush_tail(list, v) == list \o <<v>>

\* LPUSH key value: the value becomes the head of the list
LPush(list, v) == <<v>> \o list

\* LRANGE key start stop, for start >= 0: a negative stop counts from the tail
LRange(list, start, stop) ==
  SubSeq(list, start + 1,
         IF stop < 0 THEN Len(list) + stop + 1
         ELSE IF stop + 1 <= Len(list) THEN stop + 1 ELSE Len(list))

\* ZREMRANGEBYSCORE key -inf max: the entries with a score up to max leave
ZRemRangeByScore(z, max) == [x \in {x \in DOMAIN z : z[x] > max} |-> z[x]]

\* LREM key 0 value: every occurrence of value leaves the list
LRemAll(list, v) == SelectSeq(list, LAMBDA x : x # v)

\* x comes before y in the sorted set z: by score, then by member (key[x]
\* gives the place of member x in the byte order of the members)
ZPrecedes(z, key, x, y) == z[x] < z[y] \/ (z[x] = z[y] /\ key[x] < key[y])

\* ZRANGE 0 -1: the members of z in ascending order
ZRange(z, key) ==
  [i \in 1..Cardinality(DOMAIN z) |->
     CHOOSE x \in DOMAIN z :
       Cardinality({y \in DOMAIN z : ZPrecedes(z, key, y, x)}) = i - 1]

\* a range query that leaves out the entries at the upper bound
ZRangeByScore_exclusive(z, key, min, max, start, num) ==
  LET inrange == [x \in {x \in DOMAIN z : min <= z[x] /\ z[x] < max} |-> z[x]]
      all == ZRange(inrange, key)
  IN SubSeq(all, start + 1, Min(Len(all), start + num))

\* ZRANGEBYSCORE min max LIMIT start num, for num >= 0
ZRangeByScore(z, key, min, max, start, num) ==
  LET inrange == [x \in {x \in DOMAIN z : min <= z[x] /\ z[x] <= max} |-> z[x]]
      all == ZRange(inrange, key)
  IN SubSeq(all, start + 1, Min(Len(all), start + num))

\* a writer runs the functions of one use case: Entry guards the first command
\* of a call, Goto moves to the call's next command, Return ends the call
Entry(w, a) == pc[w] = "idle" /\ app = a
Goto(w, label) == pc' = [pc EXCEPT ![w] = label] /\ app' = app
Return(w) == pc' = [pc EXCEPT ![w] = "idle"] /\ app' = app
\* the command that follows command `label` in the command sequence `steps` of
\* a function, "idle" after its last one
After(steps, label) ==
  LET i == CHOOSE k \in 1..Len(steps) : steps[k] = label
  IN IF i = Len(steps) THEN "idle" ELSE steps[i + 1]

(***************************************************************************)
(* e_commerce/queries.py                                                   *)
(***************************************************************************)
get_order(o) == order[o]

get_customer_orders(c, limit) == LRange(custOrders[c], 0, limit - 1)

\* an id the store holds nothing about
NotInStore(o) ==
  /\ get_order(o) = << >>
  /\ \A s \in Statuses : o \notin statusSet[s]
  /\ o \notin orderAll
  /\ \A c \in Customers : \A i \in 1..Len(custOrders[c]) : custOrders[c][i] # o

\* History of §8's scenario: an id not in the store is created as 'created'
\* (stage 1, the cardinalities before it are kept), then shipped (stage 2),
\* then deleted (stage 3), with no other call in between.
NoScenario == [stage |-> 0, id |-> None, created |-> 0, shipped |-> 0]
Scenario(op, o, s) ==
  IF op = "create_order" /\ s = "created" /\ NotInStore(o)
  THEN [stage |-> 1, id |-> o, created |-> Cardinality(statusSet["created"]),
        shipped |-> Cardinality(statusSet["shipped"])]
  ELSE IF op = "update_order_status" /\ s = "shipped"
          /\ scenario.stage = 1 /\ scenario.id = o
  THEN [scenario EXCEPT !.stage = 2]
  ELSE IF op = "delete_order" /\ scenario.stage = 2 /\ scenario.id = o
  THEN [scenario EXCEPT !.stage = 3]
  ELSE NoScenario

create_order(w) ==
  \/ \E o \in OrderIds, c \in Customers, s \in Statuses :
       /\ Entry(w, "e_commerce")
       /\ Len(custOrders[c]) < MaxList
       /\ call' = [call EXCEPT ![w] =
                     [op |-> "create_order", id |-> o, customer_id |-> c, status |-> s]]
       /\ scenario' = Scenario("create_order", o, s)
       /\ order' = [order EXCEPT ![o] = HSet(@, [customer_id |-> c, status |-> s])]
       /\ Goto(w, "create_order:lpush")
       /\ UNCHANGED <<custOrders, statusSet, orderAll, reviewScores,
                      orderReview, orderItems, orderPayments>>
  \/ /\ pc[w] = "create_order:lpush"
     /\ custOrders' = [custOrders EXCEPT ![call[w].customer_id] = LPush(@, call[w].id)]
     /\ Goto(w, "create_order:sadd_status")
     /\ UNCHANGED <<call, scenario, order, statusSet, orderAll, reviewScores,
                    orderReview, orderItems, orderPayments>>
  \/ /\ pc[w] = "create_order:sadd_status"
     /\ statusSet' = [statusSet EXCEPT ![call[w].status] = @ \cup {call[w].id}]
     /\ Goto(w, "create_order:sadd_all")
     /\ UNCHANGED <<call, scenario, order, custOrders, orderAll, reviewScores,
                    orderReview, orderItems, orderPayments>>
  \/ /\ pc[w] = "create_order:sadd_all"
     /\ orderAll' = orderAll \cup {call[w].id}
     /\ Return(w)
     /\ UNCHANGED <<call, scenario, order, custOrders, statusSet, reviewScores,
                    orderReview, orderItems, orderPayments>>

add_review(w) ==
  \/ \E o \in OrderIds, sc \in ReviewScores :
       /\ Entry(w, "e_commerce")
       /\ call' = [call EXCEPT ![w] = [op |-> "add_review", id |-> o, score |-> sc]]
       /\ scenario' = Scenario("add_review", o, None)
       /\ orderReview' = [orderReview EXCEPT ![o] =
                            HSet(@, [score |-> sc, comment |-> ""])]
       /\ Goto(w, "add_review:zadd")
       /\ UNCHANGED <<order, custOrders, statusSet, orderAll, reviewScores,
                      orderItems, orderPayments>>
  \/ /\ pc[w] = "add_review:zadd"
     /\ reviewScores' = ZAdd(reviewScores, call[w].id, call[w].score)
     /\ Return(w)
     /\ UNCHANGED <<call, scenario, order, custOrders, statusSet, orderAll,
                    orderReview, orderItems, orderPayments>>

update_order_status(w) ==
  \/ \E o \in OrderIds, new \in Statuses :
       /\ Entry(w, "e_commerce")
       /\ call' = [call EXCEPT ![w] =
                     [op |-> "update_order_status", id |-> o, new_status |-> new,
                      old_status |-> HGet(order[o], "status"),
                      was_in |-> {s \in Statuses : o \in statusSet[s]}]]
       /\ scenario' = Scenario("update_order_status", o, new)
       /\ Goto(w, IF Truthy(HGet(order[o], "status"))
                  THEN "update_order_status:srem" ELSE "update_order_status:hset")
       /\ UNCHANGED orderVars
  \/ /\ pc[w] = "update_order_status:srem"
     /\ statusSet' = [statusSet EXCEPT ![call[w].old_status] = @ \ {call[w].id}]
     /\ Goto(w, "update_order_status:hset")
     /\ UNCHANGED <<call, scenario, order, custOrders, orderAll, reviewScores,
                    orderReview, orderItems, orderPayments>>
  \/ /\ pc[w] = "update_order_status:hset"
     /\ order' = [order EXCEPT ![call[w].id] = HSet(@, [status |-> call[w].new_status])]
     /\ Goto(w, "update_order_status:sadd")
     /\ UNCHANGED <<call, scenario, custOrders, statusSet, orderAll, reviewScores,
                    orderReview, orderItems, orderPayments>>
  \/ /\ pc[w] = "update_order_status:sadd"
     /\ statusSet' = [statusSet EXCEPT ![call[w].new_status] = @ \cup {call[w].id}]
     /\ Return(w)
     /\ UNCHANGED <<call, scenario, order, custOrders, orderAll, reviewScores,
                    orderReview, orderItems, orderPayments>>

\* delete_order without its SREM from the status set
delete_order_steps_keeping_status ==
  <<"delete_order:lrem", "delete_order:srem_all", "delete_order:zrem",
    "delete_order:del", "delete_order:del_items", "delete_order:del_payments",
    "delete_order:del_review">>

\* delete_order deleting the record before it cleans the indexes
delete_order_steps_record_first ==
  <<"delete_order:del", "delete_order:lrem", "delete_order:srem_status",
    "delete_order:srem_all", "delete_order:zrem", "delete_order:del_items",
    "delete_order:del_payments", "delete_order:del_review">>

\* the commands of delete_order, in the order the function issues them
delete_order_steps ==
  <<"delete_order:lrem", "delete_order:srem_status", "delete_order:srem_all",
    "delete_order:zrem", "delete_order:del", "delete_order:del_items",
    "delete_order:del_payments", "delete_order:del_review">>

delete_order(w) ==
  \/ \E o \in OrderIds :
       /\ Entry(w, "e_commerce")
       /\ call' = [call EXCEPT ![w] =
                     [op |-> "delete_order", id |-> o, order |-> get_order(o),
                      customer_id |-> HGet(get_order(o), "customer_id"),
                      status |-> HGet(get_order(o), "status")]]
       /\ scenario' = Scenario("delete_order", o, None)
       /\ Goto(w, Head(delete_order_steps))
       /\ UNCHANGED orderVars
  \/ /\ pc[w] = "delete_order:lrem"
     /\ custOrders' = IF Truthy(call[w].customer_id)
                      THEN [custOrders EXCEPT ![call[w].customer_id] =
                              LRemAll(@, call[w].id)]
                      ELSE custOrders
     /\ Goto(w, After(delete_order_steps, pc[w]))
     /\ UNCHANGED <<call, scenario, order, statusSet, orderAll, reviewScores,
                    orderReview, orderItems, orderPayments>>
  \/ /\ pc[w] = "delete_order:srem_status"
     /\ statusSet' = IF Truthy(call[w].status)
                     THEN [statusSet EXCEPT ![call[w].status] = @ \ {call[w].id}]
                     ELSE statusSet
     /\ Goto(w, After(delete_order_steps, pc[w]))
     /\ UNCHANGED <<call, scenario, order, custOrders, orderAll, reviewScores,
                    orderReview, orderItems, orderPayments>>
  \/ /\ pc[w] = "delete_order:srem_all"
     /\ orderAll' = orderAll \ {call[w].id}
     /\ Goto(w, After(delete_order_steps, pc[w]))
     /\ UNCHANGED <<call, scenario, order, custOrders, statusSet, reviewScores,
                    orderReview, orderItems, orderPayments>>
  \/ /\ pc[w] = "delete_order:zrem"
     /\ reviewScores' = ZRem(reviewScores, call[w].id)
     /\ Goto(w, After(delete_order_steps, pc[w]))
     /\ UNCHANGED <<call, scenario, order, custOrders, statusSet, orderAll,
                    orderReview, orderItems, orderPayments>>
  \/ /\ pc[w] = "delete_order:del"
     /\ order' = [order EXCEPT ![call[w].id] = << >>]
     /\ Goto(w, After(delete_order_steps, pc[w]))
     /\ UNCHANGED <<call, scenario, custOrders, statusSet, orderAll, reviewScores,
                    orderReview, orderItems, orderPayments>>
  \/ /\ pc[w] = "delete_order:del_items"
     /\ orderItems' = [orderItems EXCEPT ![call[w].id] = << >>]
     /\ Goto(w, After(delete_order_steps, pc[w]))
     /\ UNCHANGED <<call, scenario, order, custOrders, statusSet, orderAll,
                    reviewScores, orderReview, orderPayments>>
  \/ /\ pc[w] = "delete_order:del_payments"
     /\ orderPayments' = [orderPayments EXCEPT ![call[w].id] = << >>]
     /\ Goto(w, After(delete_order_steps, pc[w]))
     /\ UNCHANGED <<call, scenario, order, custOrders, statusSet, orderAll,
                    reviewScores, orderReview, orderItems>>
  \/ /\ pc[w] = "delete_order:del_review"
     /\ orderReview' = [orderReview EXCEPT ![call[w].id] = << >>]
     /\ Goto(w, After(delete_order_steps, pc[w]))
     /\ UNCHANGED <<call, scenario, order, custOrders, statusSet, orderAll,
                    reviewScores, orderItems, orderPayments>>

InitOrders ==
  /\ order = [o \in OrderIds |-> << >>]
  /\ custOrders = [c \in Customers |-> << >>]
  /\ statusSet = [s \in Statuses |-> {}]
  /\ orderAll = {}
  /\ reviewScores = << >>
  /\ orderReview = [o \in OrderIds |-> << >>]
  /\ orderItems = [o \in OrderIds |-> << >>]
  /\ orderPayments = [o \in OrderIds |-> << >>]

(***************************************************************************)
(* e_commerce/import.py: the load steps.  A step queues its commands in a  *)
(* pipeline and sends them with pipe.execute(); no other client writes     *)
(* between the commits of its rows, which are taken together as one step,  *)
(* followed, where it has one, by a second for the pipeline of the         *)
(* rankings it kept in memory.                                             *)
(***************************************************************************)
\* rows of olist_orders_dataset.csv
OrderRows ==
  {[order_id |-> "o1", customer_id |-> "c1", order_status |-> "created"],
   [order_id |-> "o2", customer_id |-> "c2", order_status |-> "shipped"],
   [order_id |-> "o1", customer_id |-> "c1", order_status |-> "shipped"]}

OrderFiles == {File(rows) : rows \in SeqsUpTo(OrderRows, MaxRows)}

\* the commands import_orders queues for its rows, applied in order
RECURSIVE ExecuteOrders(_, _)
ExecuteOrders(rows, st) ==
  IF rows = << >> THEN st
  ELSE LET row == Head(rows)
       IN ExecuteOrders(Tail(rows),
            [order |-> [st.order EXCEPT ![row.order_id] =
                          HSet(@, [customer_id |-> row.customer_id,
                                   status |-> row.order_status])],
             custOrders |-> [st.custOrders EXCEPT ![row.customer_id] =
                               <<row.order_id>> \o @],
             statusSet |-> [st.statusSet EXCEPT ![row.order_status] =
                              @ \cup {row.order_id}],
             orderAll |-> st.orderAll \cup {row.order_id}])

\* `rerun` notes that the step ran over the same file just before
import_orders(w) ==
  \E file \in OrderFiles \cup {Absent} :
    LET st == ExecuteOrders(file.rows, [order |-> order, custOrders |-> custOrders,
                                        statusSet |-> statusSet, orderAll |-> orderAll])
    IN /\ Entry(w, "e_commerce")
       /\ \A c \in Customers : Len(st.custOrders[c]) <= 2 * MaxRows
       /\ call' = [call EXCEPT ![w] =
                     [op |-> "import_orders", id |-> None, file |-> file,
                      rerun |-> call[w].op = "import_orders" /\ call[w].file = file]]
       /\ order' = st.order
       /\ custOrders' = st.custOrders
       /\ statusSet' = st.statusSet
       /\ orderAll' = st.orderAll
       /\ Return(w)
       /\ UNCHANGED <<scenario, reviewScores, orderReview, orderItems, orderPayments,
                      product, productSales, productRevenue, categoryRevenue,
                      socialUserAll>>

\* rows of olist_order_items_dataset.csv; `numeric` tells whether float()
\* accepts the price and the freight_value of the row
ItemRows ==
  {[order_id |-> "o1", product_id |-> "A", seller_id |-> "s1", price |-> 10,
    freight_value |-> 1, numeric |-> TRUE],
   [order_id |-> "o1", product_id |-> "B", seller_id |-> "s1", price |-> 20,
    freight_value |-> 1, numeric |-> TRUE],
   [order_id |-> "o2", product_id |-> "A", seller_id |-> "s1", price |-> 0,
    freight_value |-> 0, numeric |-> FALSE]}

ItemFiles == {File(rows) : rows \in SeqsUpTo(ItemRows, MaxRows)}

\* olist_products_dataset.csv as import_order_items reads it
ProductFiles == {File(<<[product_id |-> "A", product_category_name |-> "toys"]>>)}

\* product_categories after the first pass
RECURSIVE ProductCategories(_)
ProductCategories(rows) ==
  IF rows = << >> THEN << >>
  ELSE HSet(ProductCategories(SubSeq(rows, 1, Len(rows) - 1)),
            [p \in {rows[Len(rows)].product_id} |-> rows[Len(rows)].product_category_name])

\* a lookup that has no default for a product without category
CategoryOf_nodefault(product_categories, product_id) ==
  IF product_id \in DOMAIN product_categories THEN product_categories[product_id]
  ELSE None

\* product_categories.get(product_id, "unknown")
CategoryOf(product_categories, product_id) ==
  IF product_id \in DOMAIN product_categories THEN product_categories[product_id]
  ELSE "unknown"

\* the locals of import_order_items before its first row
NoItems ==
  [count |-> 0, pipe |-> << >>, product_sales |-> << >>, product_revenue |-> << >>,
   category_revenue |-> << >>, raised |-> FALSE]

\* the loop of import_order_items: float() raises ValueError on a row that
\* is not numeric and nothing catches it, so the loop ends there
RECURSIVE ReadItems(_, _, _)
ReadItems(rows, product_categories, st) ==
  IF rows = << >> THEN st
  ELSE LET row == Head(rows)
       IN IF ~row.numeric THEN [st EXCEPT !.raised = TRUE]
          ELSE ReadItems(Tail(rows), product_categories,
                 [count |-> st.count + 1,
                  pipe |-> Append(st.pipe, row),
                  product_sales |-> ZIncrBy(st.product_sales, row.product_id, 1),
                  product_revenue |-> ZIncrBy(st.product_revenue, row.product_id, row.price),
                  category_revenue |->
                    ZIncrBy(st.category_revenue,
                            CategoryOf(product_categories, row.product_id), row.price),
                  raised |-> FALSE])

\* the commands import_order_items queues for its rows, applied in order
RECURSIVE ExecuteItems(_, _)
ExecuteItems(pipe, st) ==
  IF pipe = << >> THEN st
  ELSE LET row == Head(pipe)
       IN ExecuteItems(Tail(pipe),
            [orderItems |-> [st.orderItems EXCEPT ![row.order_id] =
                               <<row.product_id>> \o @],
             product |-> [st.product EXCEPT ![row.product_id] =
                            HSet(@, [price |-> row.price])],
             order |-> [st.order EXCEPT ![row.order_id] =
                          HSet(@, [freight_value |-> row.freight_value,
                                   seller_id |-> row.seller_id])]])

\* ZADD key {member: score} for every entry of a dict
ZAddAll(z, dict) == [m \in DOMAIN z \cup DOMAIN dict |->
                       IF m \in DOMAIN dict THEN dict[m] ELSE z[m]]

import_order_items(w) ==
  \/ \E file \in ItemFiles \cup {Absent}, products \in ProductFiles \cup {Absent} :
       LET locals == ReadItems(file.rows, ProductCategories(products.rows), NoItems)
           st == ExecuteItems(locals.pipe, [orderItems |-> orderItems,
                                            product |-> product, order |-> order])
       IN /\ Entry(w, "e_commerce")
          /\ \A o \in OrderIds : Len(st.orderItems[o]) <= 2 * MaxRows
          /\ call' = [call EXCEPT ![w] =
                        [op |-> "import_order_items", id |-> None, file |-> file,
                         products |-> products, locals |-> locals,
                         rerun |-> call[w].op = "import_order_items" /\ call[w].file = file
                                   /\ call[w].products = products]]
          /\ IF ~file.exists \/ locals.raised
             THEN /\ UNCHANGED <<orderItems, product, order>>
                  /\ Return(w)
             ELSE /\ orderItems' = st.orderItems
                  /\ product' = st.product
                  /\ order' = st.order
                  /\ Goto(w, "import_order_items:rankings")
          /\ UNCHANGED <<scenario, custOrders, statusSet, orderAll, reviewScores,
                         orderReview, orderPayments, productSales, productRevenue,
                         categoryRevenue, socialUserAll>>
  \/ /\ pc[w] = "import_order_items:rankings"
     /\ productSales' = ZAddAll(productSales, call[w].locals.product_sales)
     /\ productRevenue' = ZAddAll(productRevenue, call[w].locals.product_revenue)
     /\ categoryRevenue' = ZAddAll(categoryRevenue, call[w].locals.category_revenue)
     /\ Return(w)
     /\ UNCHANGED <<call, scenario, order, custOrders, statusSet, orderAll, reviewScores,
                    orderReview, orderItems, orderPayments, product, socialUserAll>>

\* the byte order of the product ids
ProductKey(p) == CASE p = "A" -> 1 [] p = "B" -> 2 [] OTHER -> 3

\* a top-k query that reads the ranking from its low end
ZRevRange_ascending(z, key, start, stop) ==
  LET all == ZRange(z, key)
      last == IF stop < 0 THEN Len(all) + stop + 1 ELSE Min(stop + 1, Len(all))
  IN [i \in 1..(IF last > start THEN last - start ELSE 0) |->
        <<all[start + i], z[all[start + i]]>>]

\* ZREVRANGE key start stop WITHSCORES, for start >= 0: the entries from the
\* highest score down; a negative stop counts from the low end
ZRevRange(z, key, start, stop) ==
  LET all == ZRange(z, key)
      n == Len(all)
      last == IF stop < 0 THEN n + stop + 1 ELSE Min(stop + 1, n)
  IN [i \in 1..(IF last > start THEN last - start ELSE 0) |->
        <<all[n + 1 - (start + i)], z[all[n + 1 - (start + i)]]>>]

get_product(p) == product[p]

\* dict.get(field, default)
DictGet(d, field, default) == IF field \in DOMAIN d THEN d[field] ELSE default

\* the lines top_selling_products prints: one for every entry of results
ProductLines(results) ==
  [i \in 1..Len(results) |->
     [pid |-> results[i][1], sold |-> results[i][2],
      category |-> DictGet(get_product(results[i][1]), "category", "N/A")]]

\* a listing that repairs the ranking: an id without record leaves
\* product:sales and the result
top_selling_products_repairing(w) ==
  \E n \in 0..MaxTop :
    LET kept == [p \in {p \in DOMAIN productSales : get_product(p) # << >>} |-> productSales[p]]
        results == ZRevRange(kept, [p \in Products |-> ProductKey(p)], 0, n - 1)
    IN /\ Entry(w, "e_commerce")
       /\ call' = [call EXCEPT ![w] =
                     [op |-> "top_selling_products", id |-> None, n |-> n,
                      result |-> results, lines |-> ProductLines(results)]]
       /\ productSales' = kept
       /\ Return(w)
       /\ UNCHANGED <<scenario, orderVars, product, productRevenue, categoryRevenue,
                      socialUserAll>>

top_selling_products(w) ==
  \E n \in 0..MaxTop :
    LET results == ZRevRange(productSales, [p \in Products |-> ProductKey(p)], 0, n - 1)
    IN /\ Entry(w, "e_commerce")
       /\ call' = [call EXCEPT ![w] =
                     [op |-> "top_selling_products", id |-> None, n |-> n,
                      result |-> results, lines |-> ProductLines(results)]]
       /\ Return(w)
       /\ UNCHANGED <<scenario, orderVars, loaderVars>>

InitCatalog ==
  /\ product = [p \in Products |-> << >>]
  /\ productSales = << >>
  /\ productRevenue = << >>
  /\ categoryRevenue = << >>

(***************************************************************************)
(* social_media/queries.py                                                 *)
(***************************************************************************)
\* str.lower() on the argument values of the model
Lower(s) == CASE s = "Positive" -> "positive"
              [] s = "#A #b" -> "#a #b"
              [] OTHER -> s

\* re.findall(r'#(\w+)', text.lower()): every occurrence, in order
extract_hashtags(text) ==
  CASE Lower(text) = "#a #a" -> <<"a", "a">>
    [] Lower(text) = "#a #b" -> <<"a", "b">>
    [] OTHER -> << >>

\* a get_post that answers a missing record with a record of defaults
get_post_with_defaults(p) ==
  IF post[p] = << >> THEN [user_id |-> "u1", likes |-> 0, retweets |-> 0] ELSE post[p]

get_post(p) == post[p]

get_user_posts(u, limit) == LRange(userPosts[u], 0, limit - 1)

\* int(post.get(field, 0))
IntField(h, f) == IF f \in DOMAIN h THEN h[f] ELSE 0

\* an engagement that counts a retweet like a like
Engagement_unweighted(likes, retweets) == likes + retweets

\* update_engagement: engagement = likes + retweets * 2
Engagement(likes, retweets) == likes + retweets * 2

create_post(w) ==
  \/ \E p \in PostIds, u \in Users, text \in Texts, platform \in Platforms,
        country \in Countries, sentiment \in Sentiments :
       /\ Entry(w, "social_media")
       /\ Len(userPosts[u]) < MaxList
       /\ IntField(socialUser[u], "post_count") < MaxCount
       /\ \A t \in Tags : ZScore0(hashtagTrending, t) + Len(extract_hashtags(text)) <= MaxCount
       /\ call' = [call EXCEPT ![w] =
                     [op |-> "create_post", id |-> p, user_id |-> u,
                      platform |-> platform, country |-> country,
                      sentiment |-> sentiment, hashtags |-> extract_hashtags(text)]]
       /\ post' = [post EXCEPT ![p] =
                     HSet(@, [platform |-> Lower(platform), country |-> Lower(country),
                              likes |-> 0, retweets |-> 0,
                              sentiment |-> Lower(sentiment), user_id |-> u,
                              engagement |-> 0])]
       /\ Goto(w, IF extract_hashtags(text) # << >> THEN "create_post:sadd_hashtags"
                                                    ELSE "create_post:lpush")
       /\ UNCHANGED <<postHashtags, hashtagPosts, hashtagTrending, userPosts,
                      socialUser, platformPosts, countryPosts,
                      sentimentPosts, postAll, postTrending>>
  \/ /\ pc[w] = "create_post:sadd_hashtags"
     /\ postHashtags' = [postHashtags EXCEPT ![call[w].id] = @ \cup {Head(call[w].hashtags)}]
     /\ Goto(w, "create_post:sadd_hashtag_posts")
     /\ UNCHANGED <<call, post, hashtagPosts, hashtagTrending, userPosts,
                    socialUser, platformPosts, countryPosts, sentimentPosts,
                    postAll, postTrending>>
  \/ /\ pc[w] = "create_post:sadd_hashtag_posts"
     /\ hashtagPosts' = [hashtagPosts EXCEPT ![Head(call[w].hashtags)] = @ \cup {call[w].id}]
     /\ Goto(w, "create_post:zincrby")
     /\ UNCHANGED <<call, post, postHashtags, hashtagTrending, userPosts,
                    socialUser, platformPosts, countryPosts, sentimentPosts,
                    postAll, postTrending>>
  \/ /\ pc[w] = "create_post:zincrby"
     /\ hashtagTrending' = ZIncrBy(hashtagTrending, Head(call[w].hashtags), 1)
     /\ call' = [call EXCEPT ![w].hashtags = Tail(@)]
     /\ Goto(w, IF Tail(call[w].hashtags) # << >> THEN "create_post:sadd_hashtags"
                                                  ELSE "create_post:lpush")
     /\ UNCHANGED <<post, postHashtags, hashtagPosts, userPosts, socialUser,
                    platformPosts, countryPosts, sentimentPosts, postAll,
                    postTrending>>
  \/ /\ pc[w] = "create_post:lpush"
     /\ userPosts' = [userPosts EXCEPT ![call[w].user_id] = LPush(@, call[w].id)]
     /\ Goto(w, "create_post:hincrby")
     /\ UNCHANGED <<call, post, postHashtags, hashtagPosts, hashtagTrending,
                    socialUser, platformPosts, countryPosts, sentimentPosts,
                    postAll, postTrending>>
  \/ /\ pc[w] = "create_post:hincrby"
     /\ socialUser' = [socialUser EXCEPT ![call[w].user_id] = HIncrBy(@, "post_count", 1)]
     /\ Goto(w, "create_post:sadd_platform")
     /\ UNCHANGED <<call, post, postHashtags, hashtagPosts, hashtagTrending,
                    userPosts, platformPosts, countryPosts, sentimentPosts,
                    postAll, postTrending>>
  \/ /\ pc[w] = "create_post:sadd_platform"
     /\ platformPosts' = [platformPosts EXCEPT ![Lower(call[w].platform)] = @ \cup {call[w].id}]
     /\ Goto(w, "create_post:sadd_country")
     /\ UNCHANGED <<call, post, postHashtags, hashtagPosts, hashtagTrending,
                    userPosts, socialUser, countryPosts, sentimentPosts,
                    postAll, postTrending>>
  \/ /\ pc[w] = "create_post:sadd_country"
     /\ countryPosts' = [countryPosts EXCEPT ![Lower(call[w].country)] = @ \cup {call[w].id}]
     /\ Goto(w, "create_post:sadd_sentiment")
     /\ UNCHANGED <<call, post, postHashtags, hashtagPosts, hashtagTrending,
                    userPosts, socialUser, platformPosts, sentimentPosts,
                    postAll, postTrending>>
  \/ /\ pc[w] = "create_post:sadd_sentiment"
     /\ sentimentPosts' = [sentimentPosts EXCEPT ![Lower(call[w].sentiment)] = @ \cup {call[w].id}]
     /\ Goto(w, "create_post:sadd_all")
     /\ UNCHANGED <<call, post, postHashtags, hashtagPosts, hashtagTrending,
                    userPosts, socialUser, platformPosts, countryPosts,
                    postAll, postTrending>>
  \/ /\ pc[w] = "create_post:sadd_all"
     /\ postAll' = postAll \cup {call[w].id}
     /\ Return(w)
     /\ UNCHANGED <<call, post, postHashtags, hashtagPosts, hashtagTrending,
                    userPosts, socialUser, platformPosts, countryPosts,
                    sentimentPosts, postTrending>>

\* like_post and retweet_post: HINCRBY of the counter, then update_engagement
\* (HGETALL, HSET engagement, ZADD post:trending)
BumpThenUpdateEngagement(w, op, field) ==
  \/ \E p \in PostIds :
       /\ Entry(w, "social_media")
       /\ IntField(post[p], field) < MaxLikes
       /\ call' = [call EXCEPT ![w] = [op |-> op, id |-> p]]
       /\ post' = [post EXCEPT ![p] = HIncrBy(@, field, 1)]
       /\ Goto(w, "update_engagement:hgetall")
       /\ UNCHANGED <<postHashtags, hashtagPosts, hashtagTrending, userPosts,
                      socialUser, platformPosts, countryPosts,
                      sentimentPosts, postAll, postTrending>>
  \/ /\ pc[w] = "update_engagement:hgetall"
     /\ call[w].op = op
     /\ call' = [call EXCEPT ![w] =
                   [op |-> op, id |-> call[w].id,
                    engagement |-> Engagement(IntField(get_post(call[w].id), "likes"),
                                              IntField(get_post(call[w].id), "retweets"))]]
     /\ Goto(w, "update_engagement:hset")
     /\ UNCHANGED <<post, postHashtags, hashtagPosts, hashtagTrending,
                    userPosts, socialUser, platformPosts, countryPosts,
                    sentimentPosts, postAll, postTrending>>
  \/ /\ pc[w] = "update_engagement:hset"
     /\ call[w].op = op
     /\ post' = [post EXCEPT ![call[w].id] = HSet(@, [engagement |-> call[w].engagement])]
     /\ Goto(w, "update_engagement:zadd")
     /\ UNCHANGED <<call, postHashtags, hashtagPosts, hashtagTrending,
                    userPosts, socialUser, platformPosts, countryPosts,
                    sentimentPosts, postAll, postTrending>>
  \/ /\ pc[w] = "update_engagement:zadd"
     /\ call[w].op = op
     /\ postTrending' = ZAdd(postTrending, call[w].id, call[w].engagement)
     /\ Return(w)
     /\ UNCHANGED <<call, post, postHashtags, hashtagPosts, hashtagTrending,
                    userPosts, socialUser, platformPosts, countryPosts,
                    sentimentPosts, postAll>>

like_post(w) == BumpThenUpdateEngagement(w, "like_post", "likes")

retweet_post(w) == BumpThenUpdateEngagement(w, "retweet_post", "retweets")

\* update_post_sentiment without its HSET of the sentiment field
update_post_sentiment_steps_without_hset ==
  <<"update_post_sentiment:srem", "update_post_sentiment:sadd">>

\* the commands of update_post_sentiment after its HGET, in the order the
\* function issues them (the SREM only when the post has a sentiment)
update_post_sentiment_steps ==
  <<"update_post_sentiment:srem", "update_post_sentiment:hset",
    "update_post_sentiment:sadd">>

update_post_sentiment(w) ==
  \/ \E p \in PostIds, new \in Sentiments :
       /\ Entry(w, "social_media")
       /\ call' = [call EXCEPT ![w] =
                     [op |-> "update_post_sentiment", id |-> p, new_sentiment |-> new,
                      old_sentiment |-> HGet(post[p], "sentiment")]]
       /\ Goto(w, IF Truthy(HGet(post[p], "sentiment"))
                  THEN Head(update_post_sentiment_steps)
                  ELSE After(update_post_sentiment_steps, Head(update_post_sentiment_steps)))
       /\ UNCHANGED <<post, postHashtags, hashtagPosts, hashtagTrending,
                      userPosts, socialUser, platformPosts, countryPosts,
                      sentimentPosts, postAll, postTrending>>
  \/ /\ pc[w] = "update_post_sentiment:srem"
     /\ sentimentPosts' = [sentimentPosts EXCEPT ![call[w].old_sentiment] = @ \ {call[w].id}]
     /\ Goto(w, After(update_post_sentiment_steps, pc[w]))
     /\ UNCHANGED <<call, post, postHashtags, hashtagPosts, hashtagTrending,
                    userPosts, socialUser, platformPosts, countryPosts,
                    postAll, postTrending>>
  \/ /\ pc[w] = "update_post_sentiment:hset"
     /\ post' = [post EXCEPT ![call[w].id] =
                   HSet(@, [sentiment |-> Lower(call[w].new_sentiment)])]
     /\ Goto(w, After(update_post_sentiment_steps, pc[w]))
     /\ UNCHANGED <<call, postHashtags, hashtagPosts, hashtagTrending,
                    userPosts, socialUser, platformPosts, countryPosts,
                    sentimentPosts, postAll, postTrending>>
  \/ /\ pc[w] = "update_post_sentiment:sadd"
     /\ sentimentPosts' = [sentimentPosts EXCEPT ![Lower(call[w].new_sentiment)] =
                             @ \cup {call[w].id}]
     /\ Goto(w, After(update_post_sentiment_steps, pc[w]))
     /\ UNCHANGED <<call, post, postHashtags, hashtagPosts, hashtagTrending,
                    userPosts, socialUser, platformPosts, countryPosts,
                    postAll, postTrending>>

delete_post(w) ==
  \/ \E p \in PostIds :
       /\ Entry(w, "social_media")
       /\ call' = [call EXCEPT ![w] =
                     [op |-> "delete_post", id |-> p, post |-> get_post(p),
                      user_id |-> HGet(get_post(p), "user_id"),
                      platform |-> HGet(get_post(p), "platform"),
                      country |-> HGet(get_post(p), "country"),
                      sentiment |-> HGet(get_post(p), "sentiment"),
                      hashtags |-> {}]]
       /\ IF get_post(p) = << >> THEN Return(w) ELSE Goto(w, "delete_post:lrem")
       /\ UNCHANGED <<post, postHashtags, hashtagPosts, hashtagTrending,
                      userPosts, socialUser, platformPosts, countryPosts,
                      sentimentPosts, postAll, postTrending>>
  \/ /\ pc[w] = "delete_post:lrem"
     /\ userPosts' = IF Truthy(call[w].user_id)
                     THEN [userPosts EXCEPT ![call[w].user_id] = LRemAll(@, call[w].id)]
                     ELSE userPosts
     /\ Goto(w, "delete_post:hincrby")
     /\ UNCHANGED <<call, post, postHashtags, hashtagPosts, hashtagTrending,
                    socialUser, platformPosts, countryPosts, sentimentPosts,
                    postAll, postTrending>>
  \/ /\ pc[w] = "delete_post:hincrby"
     /\ socialUser' = IF Truthy(call[w].user_id)
                      THEN [socialUser EXCEPT ![call[w].user_id] =
                              HIncrBy(@, "post_count", -1)]
                      ELSE socialUser
     /\ Goto(w, "delete_post:srem_platform")
     /\ UNCHANGED <<call, post, postHashtags, hashtagPosts, hashtagTrending,
                    userPosts, platformPosts, countryPosts, sentimentPosts,
                    postAll, postTrending>>
  \/ /\ pc[w] = "delete_post:srem_platform"
     /\ platformPosts' = IF Truthy(call[w].platform)
                         THEN [platformPosts EXCEPT ![call[w].platform] = @ \ {call[w].id}]
                         ELSE platformPosts
     /\ Goto(w, "delete_post:srem_country")
     /\ UNCHANGED <<call, post, postHashtags, hashtagPosts, hashtagTrending,
                    userPosts, socialUser, countryPosts, sentimentPosts,
                    postAll, postTrending>>
  \/ /\ pc[w] = "delete_post:srem_country"
     /\ countryPosts' = IF Truthy(call[w].country)
                        THEN [countryPosts EXCEPT ![call[w].country] = @ \ {call[w].id}]
                        ELSE countryPosts
     /\ Goto(w, "delete_post:srem_sentiment")
     /\ UNCHANGED <<call, post, postHashtags, hashtagPosts, hashtagTrending,
                    userPosts, socialUser, platformPosts, sentimentPosts,
                    postAll, postTrending>>
  \/ /\ pc[w] = "delete_post:srem_sentiment"
     /\ sentimentPosts' = IF Truthy(call[w].sentiment)
                          THEN [sentimentPosts EXCEPT ![call[w].sentiment] = @ \ {call[w].id}]
                          ELSE sentimentPosts
     /\ Goto(w, "delete_post:smembers")
     /\ UNCHANGED <<call, post, postHashtags, hashtagPosts, hashtagTrending,
                    userPosts, socialUser, platformPosts, countryPosts,
                    postAll, postTrending>>
  \/ /\ pc[w] = "delete_post:smembers"
     /\ call' = [call EXCEPT ![w].hashtags = postHashtags[call[w].id]]
     /\ Goto(w, IF postHashtags[call[w].id] # {} THEN "delete_post:srem_hashtag"
                                                 ELSE "delete_post:zrem")
     /\ UNCHANGED <<post, postHashtags, hashtagPosts, hashtagTrending,
                    userPosts, socialUser, platformPosts, countryPosts,
                    sentimentPosts, postAll, postTrending>>
  \/ \E tag \in Tags :
       /\ pc[w] = "delete_post:srem_hashtag"
       /\ tag \in call[w].hashtags
       /\ hashtagPosts' = [hashtagPosts EXCEPT ![tag] = @ \ {call[w].id}]
       /\ hashtagTrending' = ZIncrBy(hashtagTrending, tag, -1)
       /\ call' = [call EXCEPT ![w].hashtags = @ \ {tag}]
       /\ Goto(w, IF call[w].hashtags \ {tag} # {} THEN "delete_post:srem_hashtag"
                                                   ELSE "delete_post:zrem")
       /\ UNCHANGED <<post, postHashtags, userPosts, socialUser,
                      platformPosts, countryPosts, sentimentPosts, postAll,
                      postTrending>>
  \/ /\ pc[w] = "delete_post:zrem"
     /\ postTrending' = ZRem(postTrending, call[w].id)
     /\ Goto(w, "delete_post:srem_all")
     /\ UNCHANGED <<call, post, postHashtags, hashtagPosts, hashtagTrending,
                    userPosts, socialUser, platformPosts, countryPosts,
                    sentimentPosts, postAll>>
  \/ /\ pc[w] = "delete_post:srem_all"
     /\ postAll' = postAll \ {call[w].id}
     /\ Goto(w, "delete_post:del")
     /\ UNCHANGED <<call, post, postHashtags, hashtagPosts, hashtagTrending,
                    userPosts, socialUser, platformPosts, countryPosts,
                    sentimentPosts, postTrending>>
  \/ /\ pc[w] = "delete_post:del"
     /\ post' = [post EXCEPT ![call[w].id] = << >>]
     /\ Goto(w, "delete_post:del_hashtags")
     /\ UNCHANGED <<call, postHashtags, hashtagPosts, hashtagTrending,
                    userPosts, socialUser, platformPosts, countryPosts,
                    sentimentPosts, postAll, postTrending>>
  \/ /\ pc[w] = "delete_post:del_hashtags"
     /\ postHashtags' = [postHashtags EXCEPT ![call[w].id] = {}]
     /\ Return(w)
     /\ UNCHANGED <<call, post, hashtagPosts, hashtagTrending, userPosts,
                    socialUser, platformPosts, countryPosts, sentimentPosts,
                    postAll, postTrending>>

InitPosts ==
  /\ post = [p \in PostIds \cup LoadedPostIds |-> << >>]
  /\ postHashtags = [p \in PostIds \cup LoadedPostIds |-> {}]
  /\ socialUserAll = {}
  /\ hashtagPosts = [t \in Tags |-> {}]
  /\ hashtagTrending = << >>
  /\ userPosts = [u \in Users |-> << >>]
  /\ socialUser = [u \in Users |-> << >>]
  /\ platformPosts = [x \in {Lower(x) : x \in Platforms} |-> {}]
  /\ countryPosts = [x \in {Lower(x) : x \in Countries} |-> {}]
  /\ sentimentPosts = [x \in {Lower(x) : x \in Sentiments} |-> {}]
  /\ postAll = {}
  /\ postTrending = << >>

(***************************************************************************)
(* social_media/import.py                                                  *)
(***************************************************************************)
\* rows of sentimentdataset.csv (no Hashtags column: the tags come from the text)
PostRows ==
  {[Text |-> "#a #a", Platform |-> "twitter", Country |-> "unknown", Likes |-> 1,
    Retweets |-> 0, Sentiment |-> "Positive", User |-> "u1"],
   [Text |-> "hello", Platform |-> "twitter", Country |-> "unknown", Likes |-> 0,
    Retweets |-> 0, Sentiment |-> "neutral", User |-> "u2"]}

PostFiles == {File(rows) : rows \in SeqsUpTo(PostRows, MaxRows)}

\* the locals of import_posts before its first row, with the keys its
\* pipeline writes
NoPosts ==
  [count |-> 0, hashtag_counts |-> << >>, user_posts |-> << >>,
   post |-> post, postHashtags |-> postHashtags, hashtagPosts |-> hashtagPosts,
   userPosts |-> userPosts, platformPosts |-> platformPosts,
   countryPosts |-> countryPosts, sentimentPosts |-> sentimentPosts,
   postTrending |-> postTrending, postAll |-> postAll]

\* `for tag in hashtags`: the two SADDs and the frequency of every tag
RECURSIVE ReadHashtags(_, _, _)
ReadHashtags(hashtags, post_id, st) ==
  IF hashtags = << >> THEN st
  ELSE ReadHashtags(Tail(hashtags), post_id,
         [st EXCEPT !.postHashtags[post_id] = @ \cup {Head(hashtags)},
                    !.hashtagPosts[Head(hashtags)] = @ \cup {post_id},
                    !.hashtag_counts = ZIncrBy(@, Head(hashtags), 1)])

\* post ids that go on from the posts already in the store
PostIdOf_continuing(count) == ToString(Cardinality(postAll) + count + 1)

\* post_id = str(count + 1)
PostIdOf(count) == ToString(count + 1)

\* the loop of import_posts with the commands it queues, applied in order
RECURSIVE ReadPosts(_, _)
ReadPosts(rows, st) ==
  IF rows = << >> THEN st
  ELSE LET row == Head(rows)
           post_id == PostIdOf(st.count)
           platform == Lower(row.Platform)
           country == Lower(row.Country)
           sentiment == Lower(row.Sentiment)
           engagement == Engagement(row.Likes, row.Retweets)
           tagged == ReadHashtags(extract_hashtags(row.Text), post_id, st)
       IN ReadPosts(Tail(rows),
            [tagged EXCEPT
               !.post[post_id] =
                  HSet(@, [platform |-> platform, country |-> country,
                           likes |-> row.Likes, retweets |-> row.Retweets,
                           sentiment |-> sentiment, user_id |-> row.User,
                           engagement |-> engagement]),
               !.userPosts[row.User] = <<post_id>> \o @,
               !.user_posts = ZIncrBy(@, row.User, 1),
               !.platformPosts[platform] = @ \cup {post_id},
               !.countryPosts[country] = @ \cup {post_id},
               !.sentimentPosts[sentiment] = @ \cup {post_id},
               !.postTrending = IF engagement > 0 THEN ZAdd(@, post_id, engagement) ELSE @,
               !.postAll = @ \cup {post_id},
               !.count = @ + 1])

import_posts(w) ==
  \/ \E file \in PostFiles \cup {Absent} :
       LET st == ReadPosts(file.rows, NoPosts)
       IN /\ Entry(w, "social_media")
          /\ \A u \in Users : Len(st.userPosts[u]) <= 2 * MaxRows
          /\ call' = [call EXCEPT ![w] =
                        [op |-> "import_posts", id |-> None, file |-> file,
                         hashtag_counts |-> st.hashtag_counts,
                         user_posts |-> st.user_posts,
                         rerun |-> call[w].op = "import_posts" /\ call[w].file = file]]
          /\ post' = st.post
          /\ postHashtags' = st.postHashtags
          /\ hashtagPosts' = st.hashtagPosts
          /\ userPosts' = st.userPosts
          /\ platformPosts' = st.platformPosts
          /\ countryPosts' = st.countryPosts
          /\ sentimentPosts' = st.sentimentPosts
          /\ postTrending' = st.postTrending
          /\ postAll' = st.postAll
          /\ IF file.exists THEN Goto(w, "import_posts:trending_and_users") ELSE Return(w)
          /\ UNCHANGED <<hashtagTrending, socialUser, socialUserAll>>
  \/ /\ pc[w] = "import_posts:trending_and_users"
     /\ hashtagTrending' = ZAddAll(hashtagTrending, call[w].hashtag_counts)
     /\ socialUser' = [u \in DOMAIN socialUser |->
                         IF u \in DOMAIN call[w].user_posts
                         THEN HSet(socialUser[u], [user_id |-> u,
                                                   post_count |-> call[w].user_posts[u]])
                         ELSE socialUser[u]]
     /\ socialUserAll' = socialUserAll \cup DOMAIN call[w].user_posts
     /\ Return(w)
     /\ UNCHANGED <<call, post, postHashtags, hashtagPosts, userPosts, platformPosts,
                    countryPosts, sentimentPosts, postAll, postTrending>>

(***************************************************************************)
(* movies/queries.py, and the credits loader of movies/import.py           *)
(***************************************************************************)
get_movie(m) == movie[m]

\* genre.lower(), and name.lower().replace(' ', '_') of the credits loader
GenreKey(g) == CASE g = "Drama" -> "drama" [] OTHER -> g
PersonKey(name) == CASE name = "Tom Hanks" -> "tom_hanks"
                     [] name = "Ron Howard" -> "ron_howard"
                     [] OTHER -> name

\* f"Director: {name}"
CrewEntry(name) == <<"Director", name>>

\* the list after LPUSH of the elements of seq, one at a time
Reverse(seq) == [i \in 1..Len(seq) |-> seq[Len(seq) + 1 - i]]

RECURSIVE GCD(_, _)
GCD(a, b) == IF b = 0 THEN a ELSE GCD(b, a % b)

\* total / count, a float: kept as the reduced fraction <<numerator, denominator>>
Avg(total, count) == <<total \div GCD(total, count), count \div GCD(total, count)>>

\* round(total / count, 2), in hundredths (no rating average of fewer than 8
\* whole-number ratings lies halfway between two hundredths)
Round2(total, count) == (200 * total + count) \div (2 * count)

RECURSIVE SumScores(_)
SumScores(z) ==
  IF DOMAIN z = {} THEN 0
  ELSE LET k == CHOOSE x \in DOMAIN z : TRUE IN z[k] + SumScores(ZRem(z, k))

create_movie(w) ==
  \/ \E m \in MovieIds, title \in Titles, genres \in GenreLists :
       /\ Entry(w, "movies")
       /\ call' = [call EXCEPT ![w] =
                     [op |-> "create_movie", id |-> m, genres |-> genres]]
       /\ movie' = [movie EXCEPT ![m] =
                      HSet(@, [title |-> title, vote_average |-> 0, vote_count |-> 0])]
       /\ Goto(w, IF genres # << >> THEN "create_movie:sadd_genres"
                                    ELSE "create_movie:sadd_all")
       /\ UNCHANGED <<movieGenres, genreMovies, movieAll, movieTopRated,
                      moviePopular, userRatings, movieRatings, user, userAll,
                      movieCast, movieCrew, actorMovies, directorMovies,
                      movieKeywords>>
  \/ /\ pc[w] = "create_movie:sadd_genres"
     /\ movieGenres' = [movieGenres EXCEPT ![call[w].id] = @ \cup {Head(call[w].genres)}]
     /\ Goto(w, "create_movie:sadd_genre_movies")
     /\ UNCHANGED <<call, movie, genreMovies, movieAll, movieTopRated,
                    moviePopular, userRatings, movieRatings, user, userAll,
                    movieCast, movieCrew, actorMovies, directorMovies,
                    movieKeywords>>
  \/ /\ pc[w] = "create_movie:sadd_genre_movies"
     /\ genreMovies' = [genreMovies EXCEPT ![GenreKey(Head(call[w].genres))] =
                          @ \cup {call[w].id}]
     /\ call' = [call EXCEPT ![w].genres = Tail(@)]
     /\ Goto(w, IF Tail(call[w].genres) # << >> THEN "create_movie:sadd_genres"
                                                ELSE "create_movie:sadd_all")
     /\ UNCHANGED <<movie, movieGenres, movieAll, movieTopRated,
                    moviePopular, userRatings, movieRatings, user, userAll,
                    movieCast, movieCrew, actorMovies, directorMovies,
                    movieKeywords>>
  \/ /\ pc[w] = "create_movie:sadd_all"
     /\ movieAll' = movieAll \cup {call[w].id}
     /\ Return(w)
     /\ UNCHANGED <<call, movie, movieGenres, genreMovies, movieTopRated,
                    moviePopular, userRatings, movieRatings, user, userAll,
                    movieCast, movieCrew, actorMovies, directorMovies,
                    movieKeywords>>

add_rating(w) ==
  \/ \E u \in MovieUsers, m \in MovieIds : \E rating \in RatingsOf(u) :
       /\ Entry(w, "movies")
       /\ call' = [call EXCEPT ![w] =
                     [op |-> "add_rating", id |-> m, user_id |-> u, rating |-> rating,
                      total |-> 0, count |-> 0]]
       /\ userRatings' = [userRatings EXCEPT ![u] = ZAdd(@, m, rating)]
       /\ Goto(w, "add_rating:zadd_movie")
       /\ UNCHANGED <<movie, movieGenres, genreMovies, movieAll,
                      movieTopRated, moviePopular, movieRatings, user,
                      userAll, movieCast, movieCrew, actorMovies,
                      directorMovies, movieKeywords>>
  \/ /\ pc[w] = "add_rating:zadd_movie"
     /\ movieRatings' = [movieRatings EXCEPT ![call[w].id] =
                           ZAdd(@, call[w].user_id, call[w].rating)]
     /\ Goto(w, "add_rating:hsetnx")
     /\ UNCHANGED <<call, movie, movieGenres, genreMovies, movieAll,
                    movieTopRated, moviePopular, userRatings, user, userAll,
                    movieCast, movieCrew, actorMovies, directorMovies,
                    movieKeywords>>
  \/ /\ pc[w] = "add_rating:hsetnx"
     /\ user' = [user EXCEPT ![call[w].user_id] =
                   IF "user_id" \in DOMAIN @ THEN @ ELSE HSet(@, [user_id |-> call[w].user_id])]
     /\ Goto(w, "add_rating:sadd")
     /\ UNCHANGED <<call, movie, movieGenres, genreMovies, movieAll,
                    movieTopRated, moviePopular, userRatings, movieRatings,
                    userAll, movieCast, movieCrew, actorMovies,
                    directorMovies, movieKeywords>>
  \/ /\ pc[w] = "add_rating:sadd"
     /\ userAll' = userAll \cup {call[w].user_id}
     /\ Goto(w, "update_movie_rating_stats:zrange")
     /\ UNCHANGED <<call, movie, movieGenres, genreMovies, movieAll,
                    movieTopRated, moviePopular, userRatings, movieRatings,
                    user, movieCast, movieCrew, actorMovies, directorMovies,
                    movieKeywords>>

delete_rating(w) ==
  \/ \E u \in MovieUsers, m \in MovieIds :
       /\ Entry(w, "movies")
       /\ call' = [call EXCEPT ![w] =
                     [op |-> "delete_rating", id |-> m, user_id |-> u,
                      total |-> 0, count |-> 0]]
       /\ userRatings' = [userRatings EXCEPT ![u] = ZRem(@, m)]
       /\ Goto(w, "delete_rating:zrem_movie")
       /\ UNCHANGED <<movie, movieGenres, genreMovies, movieAll,
                      movieTopRated, moviePopular, movieRatings, user,
                      userAll, movieCast, movieCrew, actorMovies,
                      directorMovies, movieKeywords>>
  \/ /\ pc[w] = "delete_rating:zrem_movie"
     /\ movieRatings' = [movieRatings EXCEPT ![call[w].id] = ZRem(@, call[w].user_id)]
     /\ Goto(w, "update_movie_rating_stats:zrange")
     /\ UNCHANGED <<call, movie, movieGenres, genreMovies, movieAll,
                    movieTopRated, moviePopular, userRatings, user, userAll,
                    movieCast, movieCrew, actorMovies, directorMovies,
                    movieKeywords>>

\* update_movie(movie_id, **fields): nothing is written for no fields
update_movie(w) ==
  \E m \in MovieIds, fields \in MovieUpdates :
    /\ Entry(w, "movies")
    /\ call' = [call EXCEPT ![w] = [op |-> "update_movie", id |-> m, fields |-> fields]]
    /\ movie' = IF fields # << >> THEN [movie EXCEPT ![m] = HSet(@, fields)] ELSE movie
    /\ Return(w)
    /\ UNCHANGED <<movieGenres, genreMovies, movieAll, movieTopRated, moviePopular,
                   userRatings, movieRatings, user, userAll, movieCast, movieCrew,
                   actorMovies, directorMovies, movieKeywords>>

\* called last by add_rating and by delete_rating
update_movie_rating_stats(w) ==
  \/ /\ pc[w] = "update_movie_rating_stats:zrange"
     /\ call' = [call EXCEPT ![w].total = SumScores(movieRatings[call[w].id]),
                             ![w].count = Cardinality(DOMAIN movieRatings[call[w].id])]
     /\ IF movieRatings[call[w].id] # << >>
        THEN Goto(w, "update_movie_rating_stats:hset")
        ELSE Return(w)
     /\ UNCHANGED <<movie, movieGenres, genreMovies, movieAll, movieTopRated,
                    moviePopular, userRatings, movieRatings, user, userAll,
                    movieCast, movieCrew, actorMovies, directorMovies,
                    movieKeywords>>
  \/ /\ pc[w] = "update_movie_rating_stats:hset"
     /\ movie' = [movie EXCEPT ![call[w].id] =
                    HSet(@, [user_rating_avg |-> Round2(call[w].total, call[w].count),
                             user_rating_count |-> call[w].count])]
     /\ IF call[w].count >= MinRatings
        THEN Goto(w, "update_movie_rating_stats:zadd")
        ELSE Return(w)
     /\ UNCHANGED <<call, movieGenres, genreMovies, movieAll, movieTopRated,
                    moviePopular, userRatings, movieRatings, user, userAll,
                    movieCast, movieCrew, actorMovies, directorMovies,
                    movieKeywords>>
  \/ /\ pc[w] = "update_movie_rating_stats:zadd"
     /\ movieTopRated' = ZAdd(movieTopRated, call[w].id, Avg(call[w].total, call[w].count))
     /\ Return(w)
     /\ UNCHANGED <<call, movie, movieGenres, genreMovies, movieAll,
                    moviePopular, userRatings, movieRatings, user, userAll,
                    movieCast, movieCrew, actorMovies, directorMovies,
                    movieKeywords>>

\* the commands of delete_movie after its genre loop, in the order the
\* function issues them
delete_movie_steps ==
  <<"delete_movie:srem_all", "delete_movie:zrem_top_rated",
    "delete_movie:zrem_popular", "delete_movie:del", "delete_movie:del_genres",
    "delete_movie:del_cast", "delete_movie:del_crew", "delete_movie:del_ratings",
    "delete_movie:del_keywords">>

delete_movie(w) ==
  \/ \E m \in MovieIds :
       /\ Entry(w, "movies")
       /\ call' = [call EXCEPT ![w] =
                     [op |-> "delete_movie", id |-> m, genres |-> movieGenres[m],
                      pending |-> movieGenres[m]]]
       /\ Goto(w, IF movieGenres[m] # {} THEN "delete_movie:srem_genre"
                                         ELSE Head(delete_movie_steps))
       /\ UNCHANGED <<movie, movieGenres, genreMovies, movieAll,
                      movieTopRated, moviePopular, userRatings, movieRatings,
                      user, userAll, movieCast, movieCrew, actorMovies,
                      directorMovies, movieKeywords>>
  \/ \E genre \in GenreNames :
       /\ pc[w] = "delete_movie:srem_genre"
       /\ genre \in call[w].pending
       /\ genreMovies' = [genreMovies EXCEPT ![GenreKey(genre)] = @ \ {call[w].id}]
       /\ call' = [call EXCEPT ![w].pending = @ \ {genre}]
       /\ Goto(w, IF call[w].pending \ {genre} # {} THEN "delete_movie:srem_genre"
                                                   ELSE Head(delete_movie_steps))
       /\ UNCHANGED <<movie, movieGenres, movieAll, movieTopRated,
                      moviePopular, userRatings, movieRatings, user, userAll,
                      movieCast, movieCrew, actorMovies, directorMovies,
                      movieKeywords>>
  \/ /\ pc[w] = "delete_movie:srem_all"
     /\ movieAll' = movieAll \ {call[w].id}
     /\ Goto(w, After(delete_movie_steps, pc[w]))
     /\ UNCHANGED <<call, movie, movieGenres, genreMovies, movieTopRated,
                    moviePopular, userRatings, movieRatings, user, userAll,
                    movieCast, movieCrew, actorMovies, directorMovies,
                    movieKeywords>>
  \/ /\ pc[w] = "delete_movie:zrem_top_rated"
     /\ movieTopRated' = ZRem(movieTopRated, call[w].id)
     /\ Goto(w, After(delete_movie_steps, pc[w]))
     /\ UNCHANGED <<call, movie, movieGenres, genreMovies, movieAll,
                    moviePopular, userRatings, movieRatings, user, userAll,
                    movieCast, movieCrew, actorMovies, directorMovies,
                    movieKeywords>>
  \/ /\ pc[w] = "delete_movie:zrem_popular"
     /\ moviePopular' = ZRem(moviePopular, call[w].id)
     /\ Goto(w, After(delete_movie_steps, pc[w]))
     /\ UNCHANGED <<call, movie, movieGenres, genreMovies, movieAll,
                    movieTopRated, userRatings, movieRatings, user, userAll,
                    movieCast, movieCrew, actorMovies, directorMovies,
                    movieKeywords>>
  \/ /\ pc[w] = "delete_movie:del"
     /\ movie' = [movie EXCEPT ![call[w].id] = << >>]
     /\ Goto(w, After(delete_movie_steps, pc[w]))
     /\ UNCHANGED <<call, movieGenres, genreMovies, movieAll, movieTopRated,
                    moviePopular, userRatings, movieRatings, user, userAll,
                    movieCast, movieCrew, actorMovies, directorMovies,
                    movieKeywords>>
  \/ /\ pc[w] = "delete_movie:del_genres"
     /\ movieGenres' = [movieGenres EXCEPT ![call[w].id] = {}]
     /\ Goto(w, After(delete_movie_steps, pc[w]))
     /\ UNCHANGED <<call, movie, genreMovies, movieAll, movieTopRated,
                    moviePopular, userRatings, movieRatings, user, userAll,
                    movieCast, movieCrew, actorMovies, directorMovies,
                    movieKeywords>>
  \/ /\ pc[w] = "delete_movie:del_cast"
     /\ movieCast' = [movieCast EXCEPT ![call[w].id] = << >>]
     /\ Goto(w, After(delete_movie_steps, pc[w]))
     /\ UNCHANGED <<call, movie, movieGenres, genreMovies, movieAll,
                    movieTopRated, moviePopular, userRatings, movieRatings,
                    user, userAll, movieCrew, actorMovies, directorMovies,
                    movieKeywords>>
  \/ /\ pc[w] = "delete_movie:del_crew"
     /\ movieCrew' = [movieCrew EXCEPT ![call[w].id] = << >>]
     /\ Goto(w, After(delete_movie_steps, pc[w]))
     /\ UNCHANGED <<call, movie, movieGenres, genreMovies, movieAll,
                    movieTopRated, moviePopular, userRatings, movieRatings,
                    user, userAll, movieCast, actorMovies, directorMovies,
                    movieKeywords>>
  \/ /\ pc[w] = "delete_movie:del_ratings"
     /\ movieRatings' = [movieRatings EXCEPT ![call[w].id] = << >>]
     /\ Goto(w, After(delete_movie_steps, pc[w]))
     /\ UNCHANGED <<call, movie, movieGenres, genreMovies, movieAll,
                    movieTopRated, moviePopular, userRatings, user, userAll,
                    movieCast, movieCrew, actorMovies, directorMovies,
                    movieKeywords>>
  \/ /\ pc[w] = "delete_movie:del_keywords"
     /\ movieKeywords' = [movieKeywords EXCEPT ![call[w].id] = {}]
     /\ Goto(w, After(delete_movie_steps, pc[w]))
     /\ UNCHANGED <<call, movie, movieGenres, genreMovies, movieAll,
                    movieTopRated, moviePopular, userRatings, movieRatings,
                    user, userAll, movieCast, movieCrew, actorMovies,
                    directorMovies>>

\* import_credits on a credits.csv of one row: the row's commands are queued
\* and sent by the closing pipe.execute() as one MULTI/EXEC batch
import_credits(w) ==
  \E m \in MovieIds, row \in CreditsRows :
    LET cast == row.cast
        directors == row.directors
    IN
    /\ Entry(w, "movies")
    /\ Len(movieCast[m]) + Len(cast) <= MaxCredits
    /\ Len(movieCrew[m]) + Len(directors) <= MaxCredits
    /\ call' = [call EXCEPT ![w] = [op |-> "import_credits", id |-> m]]
    /\ movieCast' = [movieCast EXCEPT ![m] = Reverse(cast) \o @]
    /\ actorMovies' = [a \in DOMAIN actorMovies |->
                         IF \E i \in 1..Len(cast) : PersonKey(cast[i]) = a
                         THEN actorMovies[a] \cup {m} ELSE actorMovies[a]]
    /\ movieCrew' = [movieCrew EXCEPT ![m] =
                       Reverse([i \in 1..Len(directors) |-> CrewEntry(directors[i])]) \o @]
    /\ directorMovies' = [d \in DOMAIN directorMovies |->
                            IF \E i \in 1..Len(directors) : PersonKey(directors[i]) = d
                            THEN directorMovies[d] \cup {m} ELSE directorMovies[d]]
    /\ Return(w)
    /\ UNCHANGED <<movie, movieGenres, genreMovies, movieAll, movieTopRated,
                   moviePopular, userRatings, movieRatings, user, userAll,
                   movieKeywords>>

InitMovies ==
  /\ movie = [m \in MovieIds |-> << >>]
  /\ movieGenres = [m \in MovieIds |-> {}]
  /\ genreMovies = [g \in {GenreKey(g) : g \in GenreNames} |-> {}]
  /\ movieAll = {}
  /\ movieTopRated = << >>
  /\ moviePopular = << >>
  /\ userRatings = [u \in MovieUsers |-> << >>]
  /\ movieRatings = [m \in MovieIds |-> << >>]
  /\ user = [u \in MovieUsers |-> << >>]
  /\ userAll = {}
  /\ movieCast = [m \in MovieIds |-> << >>]
  /\ movieCrew = [m \in MovieIds |-> << >>]
  /\ actorMovies = [a \in {PersonKey(n) : n \in ActorNames} |-> {}]
  /\ directorMovies = [d \in {PersonKey(n) : n \in DirectorNames} |-> {}]
  /\ movieKeywords = [m \in MovieIds |-> {}]

(***************************************************************************)
(* iot/queries.py, and the readings loader of iot/import.py                *)
(***************************************************************************)
get_sensor(m) == sensor[m]

\* strftime("%H:%M:%S") of an epoch: the clock time at a resolution of one
\* second (epochs and clock times are counted in half seconds)
TimeStr(epoch) == 2 * (epoch \div 2)

\* json.dumps of a reading: the member stored in sensor:<id>:readings
ReadingJson(temperature, epoch) == [temp |-> temperature, time |-> TimeStr(epoch)]

create_sensor(w) ==
  \/ \E m \in MoteIds :
       /\ Entry(w, "iot")
       /\ call' = [call EXCEPT ![w] = [op |-> "create_sensor", id |-> m]]
       /\ sensor' = [sensor EXCEPT ![m] =
                       HSet(@, [mote_id |-> m, pos_x |-> 0, pos_y |-> 0,
                                status |-> "active", type |-> "Mica2"])]
       /\ Goto(w, "create_sensor:sadd")
       /\ UNCHANGED <<sensorAll, sensorAvgTemp, sensorReadings, sensorLatest,
                      sensorConnectivity, sensorAlerts>>
  \/ /\ pc[w] = "create_sensor:sadd"
     /\ sensorAll' = sensorAll \cup {call[w].id}
     /\ Return(w)
     /\ UNCHANGED <<call, sensor, sensorAvgTemp, sensorReadings,
                    sensorLatest, sensorConnectivity, sensorAlerts>>

add_reading(w) ==
  \/ \E m \in MoteIds, temperature \in Temperatures, epoch \in Epochs :
       /\ Entry(w, "iot")
       /\ call' = [call EXCEPT ![w] =
                     [op |-> "add_reading", id |-> m, temperature |-> temperature,
                      epoch |-> epoch]]
       /\ sensorReadings' = [sensorReadings EXCEPT ![m] =
                               ZAdd(@, ReadingJson(temperature, epoch), epoch)]
       /\ Goto(w, "add_reading:hset")
       /\ UNCHANGED <<sensor, sensorAll, sensorAvgTemp, sensorLatest,
                      sensorConnectivity, sensorAlerts>>
  \/ /\ pc[w] = "add_reading:hset"
     /\ sensorLatest' = [sensorLatest EXCEPT ![call[w].id] =
                           HSet(@, [temperature |-> call[w].temperature,
                                    timestamp |-> call[w].epoch,
                                    time |-> TimeStr(call[w].epoch)])]
     /\ Return(w)
     /\ UNCHANGED <<call, sensor, sensorAll, sensorAvgTemp, sensorReadings,
                    sensorConnectivity, sensorAlerts>>

\* One line of data.txt: the number of its whitespace-separated fields,
\* whether its numbers parse, and the values read from it.  `time` is the
\* clock time as written, in half seconds; voltages are in tenths of a volt.
Row(fields, parsable, temperature, humidity, voltage, time) ==
  [fields |-> fields, parsable |-> parsable, mote_id |-> 1,
   temperature |-> temperature, humidity |-> humidity, voltage |-> voltage,
   time |-> time]

\* lines of data.txt: three valid ones (the last with a low battery), one
\* with too few fields, one with an unparsable number, and one each with a
\* temperature and a humidity out of domain
ReadingRows ==
  {Row(8, TRUE, 20, 50, 30, 0), Row(8, TRUE, 30, 50, 30, 0),
   Row(8, TRUE, 20, 50, 10, 3),
   Row(3, TRUE, 20, 50, 30, 0), Row(8, FALSE, 20, 50, 30, 0),
   Row(8, TRUE, 61, 50, 30, 0), Row(8, TRUE, 20, 101, 30, 0)}

DataFiles == {File(rows) : rows \in SeqsUpTo(ReadingRows, MaxRows)}

\* datetime.strptime of the clock time without its fraction, as an epoch
RowEpoch(row) == 2 * (row.time \div 2)

\* the domain filter of import_readings
OutOfDomain(row) ==
  \/ row.temperature < -40 \/ row.temperature > 60
  \/ row.humidity < 0 \/ row.humidity > 100
  \/ row.voltage < 0 \/ row.voltage > 35

\* the local variables of import_readings before the first line
NoReadings ==
  [count |-> 0, skipped |-> 0, pipe |-> << >>, latest_readings |-> << >>,
   temp_sums |-> << >>, temp_counts |-> << >>, alerts |-> << >>]

\* one pass of the loop of import_readings over a line
ReadRow(row, st) ==
  IF row.fields < 8 THEN st
  ELSE IF ~row.parsable \/ OutOfDomain(row)
  THEN [st EXCEPT !.skipped = @ + 1]
  ELSE [count |-> st.count + 1,
        skipped |-> st.skipped,
        pipe |-> Append(st.pipe, [mote_id |-> row.mote_id,
                                  reading |-> ReadingJson(row.temperature, row.time),
                                  epoch |-> RowEpoch(row)]),
        latest_readings |-> ZAdd(st.latest_readings, row.mote_id,
                                 [temperature |-> row.temperature,
                                  timestamp |-> RowEpoch(row),
                                  time |-> row.time]),
        temp_sums |-> ZIncrBy(st.temp_sums, row.mote_id, row.temperature),
        temp_counts |-> ZIncrBy(st.temp_counts, row.mote_id, 1),
        alerts |-> IF row.voltage < LOW_BATTERY_THRESHOLD
                   THEN Append(st.alerts, [mote_id |-> row.mote_id,
                                           voltage |-> row.voltage,
                                           time |-> row.time])
                   ELSE st.alerts]

RECURSIVE ReadRows(_, _)
ReadRows(rows, st) ==
  IF rows = << >> THEN st ELSE ReadRows(Tail(rows), ReadRow(Head(rows), st))

\* pipe.execute() of the queued ZADDs on the readings series
RECURSIVE ExecuteReadings(_, _)
ExecuteReadings(pipe, readings) ==
  IF pipe = << >> THEN readings
  ELSE ExecuteReadings(Tail(pipe),
         [readings EXCEPT ![Head(pipe).mote_id] =
            ZAdd(@, Head(pipe).reading, Head(pipe).epoch)])

\* import_readings on data.txt: the loop queues one ZADD per valid line and
\* sends them batch by batch, the last with the closing pipe.execute()
\* (one step here); a second pipeline then writes the latest readings, the
\* averages and the alerts.  An absent file is reported and nothing is done.
import_readings(w) ==
  \/ \E file \in DataFiles \cup {Absent} :
       LET st == IF file.exists THEN ReadRows(file.rows, NoReadings) ELSE NoReadings
       IN /\ Entry(w, "iot")
          /\ call' = [call EXCEPT ![w] =
                        [op |-> "import_readings", id |-> None, file |-> file,
                         locals |-> st]]
          /\ IF ~file.exists
             THEN /\ sensorReadings' = sensorReadings
                  /\ Return(w)
             ELSE /\ Len(sensorAlerts) + Len(st.alerts) <= MaxList
                  /\ sensorReadings' = ExecuteReadings(st.pipe, sensorReadings)
                  /\ Goto(w, "import_readings:latest_and_averages")
          /\ UNCHANGED <<sensor, sensorAll, sensorAvgTemp, sensorLatest,
                         sensorConnectivity, sensorAlerts>>
  \/ /\ pc[w] = "import_readings:latest_and_averages"
     /\ LET st == call[w].locals
        IN /\ sensorLatest' = [m \in DOMAIN sensorLatest |->
                                 IF m \in DOMAIN st.latest_readings
                                 THEN HSet(sensorLatest[m], st.latest_readings[m])
                                 ELSE sensorLatest[m]]
           /\ sensorAvgTemp' = [m \in DOMAIN sensorAvgTemp \cup DOMAIN st.temp_sums |->
                                  IF m \in DOMAIN st.temp_sums
                                  THEN Avg(st.temp_sums[m], st.temp_counts[m])
                                  ELSE sensorAvgTemp[m]]
           /\ sensorAlerts' = Reverse(SubSeq(st.alerts, 1, Min(Len(st.alerts), AlertLimit)))
                                \o sensorAlerts
     /\ Return(w)
     /\ UNCHANGED <<call, sensor, sensorAll, sensorReadings,
                    sensorConnectivity>>

\* byte order of two readings as JSON text: the values, then the clock time
ReadingKey(reading) == reading.temp * 100 + reading.time

get_latest_reading(m) == sensorLatest[m]

get_readings_in_range(w) ==
  \E m \in MoteIds, start_epoch \in Epochs, end_epoch \in Epochs, limit \in 0..MaxLimit :
    /\ Entry(w, "iot")
    /\ call' = [call EXCEPT ![w] =
                  [op |-> "get_readings_in_range", id |-> m,
                   start_epoch |-> start_epoch, end_epoch |-> end_epoch,
                   limit |-> limit,
                   result |-> ZRangeByScore(sensorReadings[m],
                                            [x \in DOMAIN sensorReadings[m] |-> ReadingKey(x)],
                                            start_epoch, end_epoch, 0, limit)]]
    /\ Return(w)
    /\ UNCHANGED <<sensor, sensorAll, sensorAvgTemp, sensorReadings,
                   sensorLatest, sensorConnectivity, sensorAlerts>>

\* the commands of delete_sensor, in the order the function issues them
update_sensor_status(w) ==
  \E m \in MoteIds, new_status \in SensorStatuses :
    /\ Entry(w, "iot")
    /\ call' = [call EXCEPT ![w] =
                  [op |-> "update_sensor_status", id |-> m, new_status |-> new_status]]
    /\ sensor' = [sensor EXCEPT ![m] = HSet(@, [status |-> new_status])]
    /\ Return(w)
    /\ UNCHANGED <<sensorAll, sensorAvgTemp, sensorReadings, sensorLatest,
                   sensorConnectivity, sensorAlerts>>

update_sensor_position(w) ==
  \E m \in MoteIds, pos \in Positions :
    /\ Entry(w, "iot")
    /\ call' = [call EXCEPT ![w] =
                  [op |-> "update_sensor_position", id |-> m, pos_x |-> pos[1],
                   pos_y |-> pos[2]]]
    /\ sensor' = [sensor EXCEPT ![m] = HSet(@, [pos_x |-> pos[1], pos_y |-> pos[2]])]
    /\ Return(w)
    /\ UNCHANGED <<sensorAll, sensorAvgTemp, sensorReadings, sensorLatest,
                   sensorConnectivity, sensorAlerts>>

\* `removed` is the reply of ZREMRANGEBYSCORE: the number of entries removed
delete_old_readings(w) ==
  \E m \in MoteIds, before_epoch \in Epochs :
    /\ Entry(w, "iot")
    /\ call' = [call EXCEPT ![w] =
                  [op |-> "delete_old_readings", id |-> m, before_epoch |-> before_epoch,
                   removed |-> Cardinality(DOMAIN sensorReadings[m]) -
                               Cardinality(DOMAIN ZRemRangeByScore(sensorReadings[m],
                                                                   before_epoch))]]
    /\ sensorReadings' = [sensorReadings EXCEPT ![m] = ZRemRangeByScore(@, before_epoch)]
    /\ Return(w)
    /\ UNCHANGED <<sensor, sensorAll, sensorAvgTemp, sensorLatest, sensorConnectivity,
                   sensorAlerts>>

delete_sensor_steps ==
  <<"delete_sensor:srem_all", "delete_sensor:zrem", "delete_sensor:del",
    "delete_sensor:del_readings", "delete_sensor:del_latest",
    "delete_sensor:del_connectivity">>

delete_sensor(w) ==
  \/ \E m \in MoteIds :
       /\ Entry(w, "iot")
       /\ call' = [call EXCEPT ![w] = [op |-> "delete_sensor", id |-> m]]
       /\ Goto(w, Head(delete_sensor_steps))
       /\ UNCHANGED <<sensor, sensorAll, sensorAvgTemp, sensorReadings,
                      sensorLatest, sensorConnectivity, sensorAlerts>>
  \/ /\ pc[w] = "delete_sensor:srem_all"
     /\ sensorAll' = sensorAll \ {call[w].id}
     /\ Goto(w, After(delete_sensor_steps, pc[w]))
     /\ UNCHANGED <<call, sensor, sensorAvgTemp, sensorReadings,
                    sensorLatest, sensorConnectivity, sensorAlerts>>
  \/ /\ pc[w] = "delete_sensor:zrem"
     /\ sensorAvgTemp' = ZRem(sensorAvgTemp, call[w].id)
     /\ Goto(w, After(delete_sensor_steps, pc[w]))
     /\ UNCHANGED <<call, sensor, sensorAll, sensorReadings, sensorLatest,
                    sensorConnectivity, sensorAlerts>>
  \/ /\ pc[w] = "delete_sensor:del"
     /\ sensor' = [sensor EXCEPT ![call[w].id] = << >>]
     /\ Goto(w, After(delete_sensor_steps, pc[w]))
     /\ UNCHANGED <<call, sensorAll, sensorAvgTemp, sensorReadings,
                    sensorLatest, sensorConnectivity, sensorAlerts>>
  \/ /\ pc[w] = "delete_sensor:del_readings"
     /\ sensorReadings' = [sensorReadings EXCEPT ![call[w].id] = << >>]
     /\ Goto(w, After(delete_sensor_steps, pc[w]))
     /\ UNCHANGED <<call, sensor, sensorAll, sensorAvgTemp, sensorLatest,
                    sensorConnectivity, sensorAlerts>>
  \/ /\ pc[w] = "delete_sensor:del_latest"
     /\ sensorLatest' = [sensorLatest EXCEPT ![call[w].id] = << >>]
     /\ Goto(w, After(delete_sensor_steps, pc[w]))
     /\ UNCHANGED <<call, sensor, sensorAll, sensorAvgTemp, sensorReadings,
                    sensorConnectivity, sensorAlerts>>
  \/ /\ pc[w] = "delete_sensor:del_connectivity"
     /\ sensorConnectivity' = [sensorConnectivity EXCEPT ![call[w].id] = << >>]
     /\ Goto(w, After(delete_sensor_steps, pc[w]))
     /\ UNCHANGED <<call, sensor, sensorAll, sensorAvgTemp, sensorReadings,
                    sensorLatest, sensorAlerts>>

InitSensors ==
  /\ sensor = [m \in MoteIds |-> << >>]
  /\ sensorAll = {}
  /\ sensorAvgTemp = << >>
  /\ sensorReadings = [m \in MoteIds |-> << >>]
  /\ sensorLatest = [m \in MoteIds |-> << >>]
  /\ sensorConnectivity = [m \in MoteIds |-> << >>]
  /\ sensorAlerts = << >>

(***************************************************************************)
(* Specifications.  main.py runs the queries.py of one use case as a       *)
(* process of its own; each use case works on its own key prefixes.        *)
(***************************************************************************)
InitWriter ==
  /\ pc = [w \in {1} |-> "idle"]
  /\ call = [w \in {1} |-> NoCall]
  /\ scenario = NoScenario

InitStore == InitOrders /\ InitCatalog /\ InitPosts /\ InitMovies /\ InitSensors

InitE_commerce == app = "e_commerce" /\ InitWriter /\ InitStore

InitSocial_media == app = "social_media" /\ InitWriter /\ InitStore

InitMoviesApp == app = "movies" /\ InitWriter /\ InitStore

InitIot == app = "iot" /\ InitWriter /\ InitStore

Init ==
  /\ app \in {"e_commerce", "social_media", "movies", "iot"}
  /\ InitWriter
  /\ InitStore

NextOrders ==
  \/ \E w \in Writers : create_order(w) /\ UNCHANGED <<postVars, movieVars, sensorVars, loaderVars>>
  \/ \E w \in Writers : add_review(w) /\ UNCHANGED <<postVars, movieVars, sensorVars, loaderVars>>
  \/ \E w \in Writers : update_order_status(w) /\ UNCHANGED <<postVars, movieVars, sensorVars, loaderVars>>
  \/ \E w \in Writers : delete_order(w) /\ UNCHANGED <<postVars, movieVars, sensorVars, loaderVars>>

NextPosts ==
  \/ \E w \in Writers : create_post(w) /\ UNCHANGED <<scenario, orderVars, movieVars, sensorVars, loaderVars>>
  \/ \E w \in Writers : like_post(w) /\ UNCHANGED <<scenario, orderVars, movieVars, sensorVars, loaderVars>>
  \/ \E w \in Writers : retweet_post(w) /\ UNCHANGED <<scenario, orderVars, movieVars, sensorVars, loaderVars>>
  \/ \E w \in Writers : update_post_sentiment(w) /\ UNCHANGED <<scenario, orderVars, movieVars, sensorVars, loaderVars>>
  \/ \E w \in Writers : delete_post(w) /\ UNCHANGED <<scenario, orderVars, movieVars, sensorVars, loaderVars>>

NextMovies ==
  \/ \E w \in Writers : create_movie(w) /\ UNCHANGED <<scenario, orderVars, postVars, sensorVars, loaderVars>>
  \/ \E w \in Writers : add_rating(w) /\ UNCHANGED <<scenario, orderVars, postVars, sensorVars, loaderVars>>
  \/ \E w \in Writers : delete_rating(w) /\ UNCHANGED <<scenario, orderVars, postVars, sensorVars, loaderVars>>
  \/ \E w \in Writers : update_movie_rating_stats(w) /\ UNCHANGED <<scenario, orderVars, postVars, sensorVars, loaderVars>>
  \/ \E w \in Writers : delete_movie(w) /\ UNCHANGED <<scenario, orderVars, postVars, sensorVars, loaderVars>>
  \/ \E w \in Writers : import_credits(w) /\ UNCHANGED <<scenario, orderVars, postVars, sensorVars, loaderVars>>

NextSensors ==
  \/ \E w \in Writers : create_sensor(w) /\ UNCHANGED <<scenario, orderVars, postVars, movieVars, loaderVars>>
  \/ \E w \in Writers : add_reading(w) /\ UNCHANGED <<scenario, orderVars, postVars, movieVars, loaderVars>>
  \/ \E w \in Writers : import_readings(w) /\ UNCHANGED <<scenario, orderVars, postVars, movieVars, loaderVars>>
  \/ \E w \in Writers : delete_sensor(w) /\ UNCHANGED <<scenario, orderVars, postVars, movieVars, loaderVars>>

Next == NextOrders \/ NextPosts \/ NextMovies \/ NextSensors

SpecOrders == InitE_commerce /\ [][NextOrders]_vars

SpecPosts == InitSocial_media /\ [][NextPosts]_vars

SpecMovies == InitMoviesApp /\ [][NextMovies]_vars

Spec == Init /\ [][Next]_vars

\* the functions that move a record from one partition set to another, and
\* those that create the records they move
NextChangeCategory ==
  \/ \E w \in Writers : create_order(w) /\ UNCHANGED <<postVars, movieVars, sensorVars, loaderVars>>
  \/ \E w \in Writers : update_order_status(w) /\ UNCHANGED <<postVars, movieVars, sensorVars, loaderVars>>
  \/ \E w \in Writers : create_post(w) /\ UNCHANGED <<scenario, orderVars, movieVars, sensorVars, loaderVars>>
  \/ \E w \in Writers : update_post_sentiment(w) /\ UNCHANGED <<scenario, orderVars, movieVars, sensorVars, loaderVars>>

SpecChangeCategory == Init /\ [][NextChangeCategory]_vars

\* the four delete functions, and the functions that write the records and
\* the index entries they remove
NextDeletes ==
  \/ \E w \in Writers : create_order(w) /\ UNCHANGED <<postVars, movieVars, sensorVars, loaderVars>>
  \/ \E w \in Writers : add_review(w) /\ UNCHANGED <<postVars, movieVars, sensorVars, loaderVars>>
  \/ \E w \in Writers : delete_order(w) /\ UNCHANGED <<postVars, movieVars, sensorVars, loaderVars>>
  \/ \E w \in Writers : create_post(w) /\ UNCHANGED <<scenario, orderVars, movieVars, sensorVars, loaderVars>>
  \/ \E w \in Writers : like_post(w) /\ UNCHANGED <<scenario, orderVars, movieVars, sensorVars, loaderVars>>
  \/ \E w \in Writers : retweet_post(w) /\ UNCHANGED <<scenario, orderVars, movieVars, sensorVars, loaderVars>>
  \/ \E w \in Writers : update_post_sentiment(w) /\ UNCHANGED <<scenario, orderVars, movieVars, sensorVars, loaderVars>>
  \/ \E w \in Writers : delete_post(w) /\ UNCHANGED <<scenario, orderVars, movieVars, sensorVars, loaderVars>>
  \/ \E w \in Writers : create_movie(w) /\ UNCHANGED <<scenario, orderVars, postVars, sensorVars, loaderVars>>
  \/ \E w \in Writers : add_rating(w) /\ UNCHANGED <<scenario, orderVars, postVars, sensorVars, loaderVars>>
  \/ \E w \in Writers : update_movie_rating_stats(w) /\ UNCHANGED <<scenario, orderVars, postVars, sensorVars, loaderVars>>
  \/ \E w \in Writers : delete_movie(w) /\ UNCHANGED <<scenario, orderVars, postVars, sensorVars, loaderVars>>
  \/ \E w \in Writers : create_sensor(w) /\ UNCHANGED <<scenario, orderVars, postVars, movieVars, loaderVars>>
  \/ \E w \in Writers : import_readings(w) /\ UNCHANGED <<scenario, orderVars, postVars, movieVars, loaderVars>>
  \/ \E w \in Writers : delete_sensor(w) /\ UNCHANGED <<scenario, orderVars, postVars, movieVars, loaderVars>>

SpecDeletes == Init /\ [][NextDeletes]_vars

(***************************************************************************)
(* Claims about e_commerce/queries.py                                      *)
(***************************************************************************)
AllIdle == \A w \in Writers : pc[w] = "idle"
Completed(w, op) == pc[w] = "idle" /\ call[w].op = op
InList(list, v) == \E i \in 1..Len(list) : list[i] = v
StatusSetsOf(o) == {s \in Statuses : o \in statusSet[s]}

\* C1: after delete_order(e) has completed, e is in no order:status:<s> set
\* (it can only be in sets it was added to), e is not in order:all, and
\* get_order(e) is the empty map.
C1_DeleteOrderLeavesNoPartition ==
  \A w \in Writers :
    Completed(w, "delete_order") =>
      /\ StatusSetsOf(call[w].id) = {}
      /\ call[w].id \notin orderAll
      /\ get_order(call[w].id) = << >>

\* C3: between calls every order whose record exists is in exactly one
\* order:status:<s> set, the one its status field names.
C3_ExactlyOneStatusSet ==
  AllIdle =>
    \A o \in OrderIds :
      get_order(o) # << >> => StatusSetsOf(o) = {HGet(get_order(o), "status")}

\* C4: after delete_order(e) has completed no customer:<c>:orders list
\* contains e.
C4_DeleteOrderUnlinksEverywhere ==
  \A w \in Writers :
    Completed(w, "delete_order") =>
      \A c \in Customers : ~InList(custOrders[c], call[w].id)

\* C5: the order lifecycle scenario.  With created0/shipped0 the
\* cardinalities before create_order(O1, _, 'created') on an id not in the
\* store: after the create, created = created0 + 1; after
\* update_order_status(O1, 'shipped'), created = created0 and shipped =
\* shipped0 + 1; after delete_order(O1) both are back and get_order(O1) is
\* empty.
C5_OrderLifecycleCounts ==
  AllIdle =>
    /\ scenario.stage = 1 =>
         /\ Cardinality(statusSet["created"]) = scenario.created + 1
         /\ Cardinality(statusSet["shipped"]) = scenario.shipped
    /\ scenario.stage = 2 =>
         /\ Cardinality(statusSet["created"]) = scenario.created
         /\ Cardinality(statusSet["shipped"]) = scenario.shipped + 1
    /\ scenario.stage = 3 =>
         /\ Cardinality(statusSet["created"]) = scenario.created
         /\ Cardinality(statusSet["shipped"]) = scenario.shipped
         /\ get_order(scenario.id) = << >>
\* the scenario was run to its end next to another order that is shipped
C5_Witness ==
  /\ AllIdle
  /\ scenario.stage = 3
  /\ scenario.shipped = 1

\* C7: update_order_status writes in the order srem old, hset status, sadd
\* new; when e was in exactly one status set as the call began, e is in at
\* most one status set in every state of the call, never in old and new.
C7_UpdateOrderStatusWindow ==
  \A w \in Writers :
    (call[w].op = "update_order_status" /\ Cardinality(call[w].was_in) = 1) =>
      /\ Cardinality(StatusSetsOf(call[w].id)) <= 1
      /\ pc[w] = "update_order_status:hset" =>
           \A s \in Statuses : s = call[w].old_status => call[w].id \notin statusSet[s]
      /\ pc[w] = "update_order_status:sadd" =>
           /\ HGet(get_order(call[w].id), "status") = call[w].new_status
           /\ StatusSetsOf(call[w].id) = {}

(***************************************************************************)
(* Claims about social_media/queries.py                                    *)
(***************************************************************************)
SentimentSet(s) == IF s \in DOMAIN sentimentPosts THEN sentimentPosts[s] ELSE {}

\* C2 as stated: after update_order_status(e, new) on an order whose record
\* has status old, e is not in order:status:old (old # new), e is in
\* order:status:new and the status field is new; after
\* update_post_sentiment(p, new) the same holds of sentiment:<s>:posts and
\* the sentiment field.
C2_ChangeCategoryAsStated ==
  \A w \in Writers :
    /\ (Completed(w, "update_order_status") /\ Truthy(call[w].old_status)) =>
         /\ call[w].old_status # call[w].new_status =>
              call[w].id \notin statusSet[call[w].old_status]
         /\ call[w].id \in statusSet[call[w].new_status]
         /\ HGet(get_order(call[w].id), "status") = call[w].new_status
    /\ (Completed(w, "update_post_sentiment") /\ Truthy(call[w].old_sentiment)) =>
         /\ call[w].old_sentiment # call[w].new_sentiment =>
              call[w].id \notin SentimentSet(call[w].old_sentiment)
         /\ call[w].id \in SentimentSet(call[w].new_sentiment)
         /\ HGet(get_post(call[w].id), "sentiment") = call[w].new_sentiment

\* C2 amended: update_post_sentiment gives the guarantee for the lower-cased
\* new sentiment: p leaves sentiment:<old>:posts when old # lower(new), p is
\* in sentiment:<lower(new)>:posts and the sentiment field is lower(new);
\* update_order_status gives it for new as passed.
C2_ChangeCategory ==
  \A w \in Writers :
    /\ (Completed(w, "update_order_status") /\ Truthy(call[w].old_status)) =>
         /\ call[w].old_status # call[w].new_status =>
              call[w].id \notin statusSet[call[w].old_status]
         /\ call[w].id \in statusSet[call[w].new_status]
         /\ HGet(get_order(call[w].id), "status") = call[w].new_status
    /\ (Completed(w, "update_post_sentiment") /\ Truthy(call[w].old_sentiment)) =>
         /\ call[w].old_sentiment # Lower(call[w].new_sentiment) =>
              call[w].id \notin SentimentSet(call[w].old_sentiment)
         /\ call[w].id \in SentimentSet(Lower(call[w].new_sentiment))
         /\ HGet(get_post(call[w].id), "sentiment") = Lower(call[w].new_sentiment)
\* a neutral post was updated to 'Positive'
C2_Witness ==
  \E w \in Writers :
    /\ Completed(w, "update_post_sentiment")
    /\ call[w].old_sentiment = "neutral"
    /\ call[w].new_sentiment = "Positive"
    /\ call[w].id \in sentimentPosts["positive"]

\* C8: after like_post or retweet_post on an existing post p has completed,
\* the score of p in post:trending is likes + 2 * retweets of p's record and
\* is the record's engagement field.
C8_TrendingScoreIsEngagement ==
  \A w \in Writers :
    (/\ pc[w] = "idle"
     /\ call[w].op \in {"like_post", "retweet_post"}
     /\ "user_id" \in DOMAIN get_post(call[w].id)) =>
      /\ call[w].id \in DOMAIN postTrending
      /\ postTrending[call[w].id] =
           IntField(get_post(call[w].id), "likes")
             + 2 * IntField(get_post(call[w].id), "retweets")
      /\ HGet(get_post(call[w].id), "engagement") = postTrending[call[w].id]
\* a post with a like and a retweet
C8_Witness ==
  \E w \in Writers :
    /\ pc[w] = "idle"
    /\ call[w].op = "retweet_post"
    /\ "user_id" \in DOMAIN get_post(call[w].id)
    /\ get_post(call[w].id).likes = 1
    /\ get_post(call[w].id).retweets = 1
    /\ postTrending[call[w].id] = 3


(***************************************************************************)
(* Claims about movies/queries.py                                          *)
(***************************************************************************)
\* the ratings calls alone, from the empty store
NextRatings ==
  \/ \E w \in Writers : add_rating(w) /\ UNCHANGED <<scenario, orderVars, postVars, sensorVars, loaderVars>>
  \/ \E w \in Writers : delete_rating(w) /\ UNCHANGED <<scenario, orderVars, postVars, sensorVars, loaderVars>>
  \/ \E w \in Writers : update_movie_rating_stats(w) /\ UNCHANGED <<scenario, orderVars, postVars, sensorVars, loaderVars>>

SpecRatings == InitMoviesApp /\ [][NextRatings]_vars

\* C9: between completed add_rating and delete_rating calls a movie is in
\* movie:top_rated only if movie:<m>:ratings holds at least 5 entries, and
\* its score is then the current average of those entries.
C9_TopRatedOnlyWithFiveRatings ==
  AllIdle =>
    \A m \in MovieIds :
      m \in DOMAIN movieTopRated =>
        /\ Cardinality(DOMAIN movieRatings[m]) >= MinRatings
        /\ movieTopRated[m] = Avg(SumScores(movieRatings[m]),
                                  Cardinality(DOMAIN movieRatings[m]))

\* C10: after delete_movie(m) has completed, m is in no genre, actor or
\* director set, not in movie:all, movie:top_rated or movie:popular, in no
\* user:<u>:ratings, and movie:<m> and every movie:<m>:* key are absent.
C10_DeleteMovieLeavesNothing ==
  \A w \in Writers :
    Completed(w, "delete_movie") =>
      LET m == call[w].id
      IN /\ \A g \in DOMAIN genreMovies : m \notin genreMovies[g]
         /\ \A a \in DOMAIN actorMovies : m \notin actorMovies[a]
         /\ \A d \in DOMAIN directorMovies : m \notin directorMovies[d]
         /\ m \notin movieAll
         /\ m \notin DOMAIN movieTopRated
         /\ m \notin DOMAIN moviePopular
         /\ \A u \in MovieUsers : m \notin DOMAIN userRatings[u]
         /\ get_movie(m) = << >>
         /\ movieGenres[m] = {} /\ movieKeywords[m] = {}
         /\ movieCast[m] = << >> /\ movieCrew[m] = << >>
         /\ movieRatings[m] = << >>

(***************************************************************************)
(* Claims about the delete functions of all four use cases                 *)
(***************************************************************************)
\* the call of writer w is past the command `label` of `steps`
Past(w, steps, label) ==
  \E i, j \in 1..Len(steps) : steps[i] = label /\ steps[j] = pc[w] /\ i < j

\* C6: in every intermediate state of delete_order, delete_post,
\* delete_sensor and delete_movie in which the record has already been
\* deleted, no partition, ranking or relationship index derivable from the
\* fields the record had contains the id any more.
C6_IndexesGoBeforeTheRecord ==
  \A w \in Writers :
    LET id == call[w].id
    IN /\ (Past(w, delete_order_steps, "delete_order:del") /\ get_order(id) = << >>) =>
            /\ Truthy(call[w].customer_id) => ~InList(custOrders[call[w].customer_id], id)
            /\ Truthy(call[w].status) => id \notin statusSet[call[w].status]
            /\ id \notin orderAll
            /\ id \notin DOMAIN reviewScores
       /\ (pc[w] = "delete_post:del_hashtags" /\ get_post(id) = << >>) =>
            /\ Truthy(call[w].user_id) => ~InList(userPosts[call[w].user_id], id)
            /\ Truthy(call[w].platform) => id \notin platformPosts[call[w].platform]
            /\ Truthy(call[w].country) => id \notin countryPosts[call[w].country]
            /\ Truthy(call[w].sentiment) => id \notin SentimentSet(call[w].sentiment)
            /\ \A tag \in postHashtags[id] : id \notin hashtagPosts[tag]
            /\ id \notin DOMAIN postTrending
            /\ id \notin postAll
       /\ (Past(w, delete_sensor_steps, "delete_sensor:del") /\ get_sensor(id) = << >>) =>
            /\ id \notin sensorAll
            /\ id \notin DOMAIN sensorAvgTemp
       /\ (Past(w, delete_movie_steps, "delete_movie:del") /\ get_movie(id) = << >>) =>
            /\ \A genre \in call[w].genres : id \notin genreMovies[GenreKey(genre)]
            /\ id \notin movieAll
            /\ id \notin DOMAIN movieTopRated
            /\ id \notin DOMAIN moviePopular

\* delete_order has deleted the record of an order that had a customer, a
\* status and a review, and has not yet returned
C6_Witness ==
  \E w \in Writers :
    /\ pc[w] = "delete_order:del_items"
    /\ Truthy(call[w].customer_id) /\ Truthy(call[w].status)
    /\ orderReview[call[w].id] # << >>
    /\ get_order(call[w].id) = << >>

(***************************************************************************)
(* Claims about delete_post                                                *)
(***************************************************************************)
\* C11: after delete_post(p) has completed for a post whose record existed,
\* p is in no platform, country, sentiment or hashtag set, not in
\* post:trending, not in post:all, in no social:user:<u>:posts list, and
\* get_post(p) is empty.
C11_DeletePostLeavesNothing ==
  \A w \in Writers :
    (Completed(w, "delete_post") /\ call[w].post # << >>) =>
      LET p == call[w].id
      IN /\ \A x \in DOMAIN platformPosts : p \notin platformPosts[x]
         /\ \A x \in DOMAIN countryPosts : p \notin countryPosts[x]
         /\ \A x \in DOMAIN sentimentPosts : p \notin sentimentPosts[x]
         /\ \A t \in DOMAIN hashtagPosts : p \notin hashtagPosts[t]
         /\ p \notin DOMAIN postTrending
         /\ p \notin postAll
         /\ \A u \in DOMAIN userPosts : ~InList(userPosts[u], p)
         /\ get_post(p) = << >>

(***************************************************************************)
(* Claims about iot/queries.py and iot/import.py                           *)
(***************************************************************************)
\* add_reading and the range query alone
NextReadings ==
  \/ \E w \in Writers : add_reading(w) /\ UNCHANGED <<scenario, orderVars, postVars, movieVars, loaderVars>>
  \/ \E w \in Writers : get_readings_in_range(w) /\ UNCHANGED <<scenario, orderVars, postVars, movieVars, loaderVars>>

SpecReadings == InitIot /\ [][NextReadings]_vars

\* C15: get_readings_in_range(m, a, b, limit) returns only readings of
\* sensor m with a <= timestamp <= b, in ascending timestamp order, at most
\* limit of them, and those are the earliest ones of the range.
C15_RangeQuery ==
  \A w \in Writers :
    Completed(w, "get_readings_in_range") =>
      LET z == sensorReadings[call[w].id]
          res == call[w].result
          inrange == {x \in DOMAIN z : call[w].start_epoch <= z[x] /\ z[x] <= call[w].end_epoch}
      IN /\ \A i \in 1..Len(res) : res[i] \in inrange
         /\ \A i, j \in 1..Len(res) : i < j => res[i] # res[j] /\ z[res[i]] <= z[res[j]]
         /\ Len(res) = Min(call[w].limit, Cardinality(inrange))
         /\ \A x \in inrange :
              (\A i \in 1..Len(res) : res[i] # x) => \A i \in 1..Len(res) : z[res[i]] <= z[x]

\* a query with limit 1 over a series with two readings in the range and one
\* after it
C15_Witness ==
  \E w \in Writers :
    /\ Completed(w, "get_readings_in_range")
    /\ call[w].limit = 1 /\ Len(call[w].result) = 1
    /\ call[w].start_epoch = 0 /\ call[w].end_epoch = 1
    /\ Cardinality({x \in DOMAIN sensorReadings[call[w].id] :
                      sensorReadings[call[w].id][x] <= 1}) = 2
    /\ \E x \in DOMAIN sensorReadings[call[w].id] : sensorReadings[call[w].id][x] = 2

\* C16: every add_reading call adds one entry to sensor:<m>:readings, also
\* when its values and its second are those of an earlier reading.
C16_EveryReadingIsAnEvent ==
  [][\A w \in Writers :
       (pc[w] = "idle" /\ pc'[w] = "add_reading:hset") =>
         Cardinality(DOMAIN sensorReadings'[call'[w].id]) =
           Cardinality(DOMAIN sensorReadings[call'[w].id]) + 1]_vars

\* C17: between calls sensor:<m>:latest holds the timestamp and the values
\* of the reading with the greatest timestamp in sensor:<m>:readings.
C17_LatestIsMostRecent ==
  AllIdle =>
    \A m \in MoteIds :
      sensorReadings[m] # << >> =>
        \E x \in DOMAIN sensorReadings[m] :
          /\ \A y \in DOMAIN sensorReadings[m] : sensorReadings[m][y] <= sensorReadings[m][x]
          /\ HGet(get_latest_reading(m), "timestamp") = sensorReadings[m][x]
          /\ HGet(get_latest_reading(m), "temperature") = x.temp

\* import_readings alone
NextImportReadings ==
  \E w \in Writers : import_readings(w) /\ UNCHANGED <<scenario, orderVars, postVars, movieVars, loaderVars>>

SpecImportReadings == InitIot /\ [][NextImportReadings]_vars

\* C19: when import_readings has run over a file, imported plus skipped
\* lines equal the lines read, and the skipped lines are exactly the
\* malformed and the out-of-domain ones.
C19_EveryLineAccounted ==
  \A w \in Writers :
    (Completed(w, "import_readings") /\ call[w].file.exists) =>
      LET rows == call[w].file.rows
          bad == {i \in 1..Len(rows) :
                    rows[i].fields < 8 \/ ~rows[i].parsable \/ OutOfDomain(rows[i])}
      IN /\ call[w].locals.count + call[w].locals.skipped = Len(rows)
         /\ call[w].locals.skipped = Cardinality(bad)

(***************************************************************************)
(* Claims about the load steps                                             *)
(***************************************************************************)
InitLoaders ==
  /\ app \in {"e_commerce", "social_media"}
  /\ InitWriter
  /\ InitStore

\* import_orders and import_posts, run any number of times
NextLoaders ==
  \/ \E w \in Writers : import_orders(w) /\ UNCHANGED <<postVars, movieVars, sensorVars>>
  \/ \E w \in Writers : import_posts(w) /\ UNCHANGED <<scenario, orderVars, movieVars, sensorVars, product, productSales, productRevenue, categoryRevenue>>

SpecLoaders == InitLoaders /\ [][NextLoaders]_vars

\* a step of a second run of load step op over the file of the run before
Rerun(w, op) == call'[w].op = op /\ call'[w].rerun /\ call'[w].file.exists

C13_RerunDoesNotDoubleCount ==
  [][\A w \in Writers :
       /\ Rerun(w, "import_orders") =>
            /\ custOrders' = custOrders
            /\ statusSet' = statusSet
            /\ orderAll' = orderAll
       /\ Rerun(w, "import_posts") =>
            /\ userPosts' = userPosts
            /\ postTrending' = postTrending
            /\ hashtagTrending' = hashtagTrending
            /\ postAll' = postAll]_vars

\* import_order_items alone
NextImportItems ==
  \E w \in Writers : import_order_items(w) /\ UNCHANGED <<postVars, movieVars, sensorVars>>

SpecImportItems == InitE_commerce /\ [][NextImportItems]_vars

\* C18: import_order_items does not abort on a row whose price or
\* freight_value is not numeric: it completes, and every well-formed row of
\* the file is imported (counted, and its product in order:<o>:items).
C18_MalformedRowIsSkipped ==
  \A w \in Writers :
    (Completed(w, "import_order_items") /\ call[w].file.exists) =>
      LET rows == call[w].file.rows
          good == {i \in 1..Len(rows) : rows[i].numeric}
      IN /\ ~call[w].locals.raised
         /\ call[w].locals.count = Cardinality(good)
         /\ \A i \in good : InList(orderItems[rows[i].order_id], rows[i].product_id)

\* the prices of the rows of a file, added up
RECURSIVE SumPrices(_)
SumPrices(rows) == IF rows = << >> THEN 0 ELSE Head(rows).price + SumPrices(Tail(rows))

ProductRecords == {<< >>, [price |-> 10], [category |-> "toys", price |-> 10]}

\* the rankings product:sales can hold over the products of the model
SalesRankings == UNION {[S -> {1, 5, 10}] : S \in SUBSET Products}

InitTopSelling ==
  /\ app = "e_commerce"
  /\ InitWriter
  /\ InitOrders /\ InitPosts /\ InitMovies /\ InitSensors
  /\ product \in [Products -> ProductRecords]
  /\ productSales \in SalesRankings
  /\ productRevenue = << >>
  /\ categoryRevenue = << >>

NextTopSelling ==
  \E w \in Writers : top_selling_products(w) /\ UNCHANGED <<postVars, movieVars, sensorVars>>

SpecTopSelling == InitTopSelling /\ [][NextTopSelling]_vars

\* C14: top_selling_products(n), n >= 1, returns min(n, size) entries of
\* product:sales with their scores, from the highest score down, equal
\* scores in descending order of the ids, and no entry left out has a
\* higher score than one returned; the result is a function of the ranking.
C14_TopK ==
  \A w \in Writers :
    (Completed(w, "top_selling_products") /\ call[w].n >= 1) =>
      LET res == call[w].result
          z == productSales
      IN /\ Len(res) = Min(call[w].n, Cardinality(DOMAIN z))
         /\ \A i \in 1..Len(res) : res[i][1] \in DOMAIN z /\ res[i][2] = z[res[i][1]]
         /\ \A i, j \in 1..Len(res) : i < j => ZPrecedes(z, [p \in Products |-> ProductKey(p)], res[j][1], res[i][1])
         /\ \A x \in DOMAIN z :
              (\A i \in 1..Len(res) : res[i][1] # x) =>
                \A i \in 1..Len(res) : z[x] <= res[i][2]

\* scores A = 5, B = 10, C = 1 and n = 2: the result is [(B, 10), (A, 5)]
C14_Witness ==
  \E w \in Writers :
    /\ Completed(w, "top_selling_products")
    /\ call[w].n = 2
    /\ productSales = [p \in Products |-> CASE p = "A" -> 5 [] p = "B" -> 10 [] OTHER -> 1]
    /\ call[w].result = <<<<"B", 10>>, <<"A", 5>>>>

(***************************************************************************)
(* Claims about the relationship lists                                     *)
(***************************************************************************)
\* how often v occurs in a list
Occurrences(list, v) == Cardinality({i \in 1..Len(list) : list[i] = v})

\* C26: when customer:<c>:orders holds the id of the order more than once,
\* the unlink step of delete_order takes one occurrence out of the list
\* and leaves the others.
C26_UnlinkRemovesOneOccurrence ==
  [][\A w \in Writers :
       (/\ pc[w] = "delete_order:lrem"
        /\ Truthy(call[w].customer_id)
        /\ Occurrences(custOrders[call[w].customer_id], call[w].id) > 1) =>
         Occurrences(custOrders'[call[w].customer_id], call[w].id) =
           Occurrences(custOrders[call[w].customer_id], call[w].id) - 1]_vars

\* create_order and create_post
NextLinks ==
  \/ \E w \in Writers : create_order(w) /\ UNCHANGED <<postVars, movieVars, sensorVars, loaderVars>>
  \/ \E w \in Writers : create_post(w) /\ UNCHANGED <<scenario, orderVars, movieVars, sensorVars, loaderVars>>

SpecLinks == InitLoaders /\ [][NextLinks]_vars

\* C27: the link step of create_order puts the new order in front of the
\* orders get_customer_orders returned before, and the link step of
\* create_post does the same to get_user_posts: the lists read most
\* recent first.
C27_LinkInsertsAtTheFront ==
  [][\A w \in Writers :
       /\ pc[w] = "create_order:lpush" =>
            get_customer_orders(call[w].customer_id, 10)' =
              <<call[w].id>> \o get_customer_orders(call[w].customer_id, 10)
       /\ pc[w] = "create_post:lpush" =>
            get_user_posts(call[w].user_id, 10)' =
              <<call[w].id>> \o get_user_posts(call[w].user_id, 10)]_vars

\* create_order(o1, c1) then create_order(o2, c1): o2 comes before o1
C27_Witness ==
  \E w \in Writers :
    /\ Completed(w, "create_order")
    /\ call[w].id = "o2" /\ call[w].customer_id = "c1"
    /\ get_customer_orders("c1", 10) = <<"o2", "o1">>

(***************************************************************************)
(* Claims about the two sides of a rating                                  *)
(***************************************************************************)
\* C29: between calls of add_rating and delete_rating, user u has score s
\* for movie m in user:<u>:ratings iff movie m has score s for user u in
\* movie:<m>:ratings; after add_rating(u, m, s) the score of the pair is s
\* and after delete_rating(u, m) the pair has no rating.
C29_RatingsAgreeOnBothSides ==
  AllIdle =>
    /\ \A u \in MovieUsers, m \in MovieIds :
         /\ m \in DOMAIN userRatings[u] <=> u \in DOMAIN movieRatings[m]
         /\ m \in DOMAIN userRatings[u] => userRatings[u][m] = movieRatings[m][u]
    /\ \A w \in Writers :
         /\ call[w].op = "add_rating" =>
              /\ call[w].id \in DOMAIN userRatings[call[w].user_id]
              /\ userRatings[call[w].user_id][call[w].id] = call[w].rating
         /\ call[w].op = "delete_rating" =>
              call[w].id \notin DOMAIN userRatings[call[w].user_id]

\* u1 rated m1 with 1 and then with 5, and another user rated it too
C29_Witness ==
  /\ AllIdle
  /\ \E w \in Writers : call[w].op = "add_rating" /\ call[w].user_id = "u1" /\ call[w].rating = 5
  /\ movieRatings["m1"]["u1"] = 5
  /\ Cardinality(DOMAIN movieRatings["m1"]) = 2

(***************************************************************************)
(* Claims about hashtag:trending                                           *)
(***************************************************************************)
\* C30: between calls, the score of every tag in hashtag:trending is the
\* number of posts in hashtag:<t>:posts.
C30_TrendingCountsPosts ==
  AllIdle =>
    \A t \in Tags : ZScore0(hashtagTrending, t) = Cardinality(hashtagPosts[t])

(***************************************************************************)
(* Claims about delete_old_readings                                        *)
(***************************************************************************)
NextOldReadings ==
  \/ \E w \in Writers : add_reading(w) /\ UNCHANGED <<scenario, orderVars, postVars, movieVars, loaderVars>>
  \/ \E w \in Writers : delete_old_readings(w) /\ UNCHANGED <<scenario, orderVars, postVars, movieVars, loaderVars>>

SpecOldReadings == InitIot /\ [][NextOldReadings]_vars

\* C28: delete_old_readings(m, t) removes the readings of sensor m with a
\* timestamp below t, keeps those with a timestamp of t or more, and
\* returns the number of readings it removed.
C28_DeleteOldReadings ==
  [][\A w \in Writers :
       (pc[w] = "idle" /\ pc'[w] = "idle" /\ call'[w].op = "delete_old_readings") =>
         LET old == sensorReadings[call'[w].id]
             new == sensorReadings'[call'[w].id]
         IN /\ \A x \in DOMAIN old :
                 IF old[x] < call'[w].before_epoch
                 THEN x \notin DOMAIN new
                 ELSE x \in DOMAIN new /\ new[x] = old[x]
            /\ DOMAIN new \subseteq DOMAIN old
            /\ call'[w].removed = Cardinality(DOMAIN old) - Cardinality(DOMAIN new)]_vars

(***************************************************************************)
(* Claims about the field updates                                          *)
(***************************************************************************)
\* the create and the update functions of the three use cases that have one
NextUpdates ==
  \/ \E w \in Writers : create_order(w) /\ UNCHANGED <<postVars, movieVars, sensorVars, loaderVars>>
  \/ \E w \in Writers : update_order_status(w) /\ UNCHANGED <<postVars, movieVars, sensorVars, loaderVars>>
  \/ \E w \in Writers : create_movie(w) /\ UNCHANGED <<scenario, orderVars, postVars, sensorVars, loaderVars>>
  \/ \E w \in Writers : update_movie(w) /\ UNCHANGED <<scenario, orderVars, postVars, sensorVars, loaderVars>>
  \/ \E w \in Writers : create_sensor(w) /\ UNCHANGED <<scenario, orderVars, postVars, movieVars, loaderVars>>
  \/ \E w \in Writers : update_sensor_status(w) /\ UNCHANGED <<scenario, orderVars, postVars, movieVars, loaderVars>>
  \/ \E w \in Writers : update_sensor_position(w) /\ UNCHANGED <<scenario, orderVars, postVars, movieVars, loaderVars>>

SpecUpdates == Init /\ [][NextUpdates]_vars

\* of the records `old`, the step to `new` changes at most the fields in
\* `named` of the record of id
OnlyFields(old, new, id, named) ==
  /\ \A k \in DOMAIN old : k # id => new[k] = old[k]
  /\ DOMAIN new[id] \subseteq DOMAIN old[id] \cup named
  /\ \A f \in DOMAIN old[id] \ named : f \in DOMAIN new[id] /\ new[id][f] = old[id][f]

\* C24: every step of update_order_status, update_sensor_status,
\* update_sensor_position and update_movie changes, of the records, only
\* the fields the call names, and leaves order:all, customer:<c>:orders,
\* review:scores, sensor:all and movie:all as they are.
C24_UpdateMergesFields ==
  [][\A w \in Writers :
       /\ call'[w].op = "update_order_status" =>
            /\ OnlyFields(order, order', call'[w].id, {"status"})
            /\ UNCHANGED <<orderAll, custOrders, reviewScores>>
       /\ call'[w].op = "update_sensor_status" =>
            /\ OnlyFields(sensor, sensor', call'[w].id, {"status"})
            /\ UNCHANGED sensorAll
       /\ call'[w].op = "update_sensor_position" =>
            /\ OnlyFields(sensor, sensor', call'[w].id, {"pos_x", "pos_y"})
            /\ UNCHANGED sensorAll
       /\ call'[w].op = "update_movie" =>
            /\ OnlyFields(movie, movie', call'[w].id, DOMAIN call'[w].fields)
            /\ UNCHANGED movieAll]_vars

\* the status of a sensor that was created has been updated
C24_Witness ==
  \E w \in Writers :
    /\ Completed(w, "update_sensor_status")
    /\ sensor[call[w].id] = [mote_id |-> call[w].id, pos_x |-> 0, pos_y |-> 0,
                              status |-> call[w].new_status, type |-> "Mica2"]

BATCH_SIZE == 2

\* most lines of movies_metadata.csv
MaxMovieRows == 3

\* most lines of ratings.csv
MaxRatingRows == 5

\* largest batch_size handed to import_ratings
MaxBatch == 3

BatchSizes == 1..MaxBatch

\* lines of ratings.csv: a rating, a line without a user id, and a line
\* whose rating is not a number
RatingRows ==
  {[userId |-> "u1", movieId |-> "m1", rating |-> 5, parsable |-> TRUE],
   [userId |-> "", movieId |-> "m1", rating |-> 5, parsable |-> TRUE],
   [userId |-> "u1", movieId |-> "m1", rating |-> 0, parsable |-> FALSE]}

RatingFiles == {File(rows) : rows \in SeqsUpTo(RatingRows, MaxRatingRows)}

\* a dict as the sequence of its items in insertion order: d[k] = d.get(k, 0) + by
ItemsAdd(d, k, by) ==
  IF \E i \in 1..Len(d) : d[i].key = k
  THEN [i \in 1..Len(d) |-> IF d[i].key = k
                            THEN [key |-> k, value |-> d[i].value + by]
                            ELSE d[i]]
  ELSE Append(d, [key |-> k, value |-> by])

ItemsValue(d, k) == d[CHOOSE i \in 1..Len(d) : d[i].key = k].value

\* the keys import_movies and import_ratings write
MoviesStore ==
  [userRatings |-> userRatings, movieRatings |-> movieRatings, user |-> user,
   userAll |-> userAll, movieTopRated |-> movieTopRated, movie |-> movie,
   movieGenres |-> movieGenres, genreMovies |-> genreMovies,
   movieAll |-> movieAll, moviePopular |-> moviePopular]

\* one queued command of the two loaders, as the server runs it
RunCommand(c, s) ==
  CASE c.cmd = "hset_movie_row" ->
         [s EXCEPT !.movie[c.movie_id] = HSet(@, c.mapping)]
    [] c.cmd = "sadd_genres" ->
         [s EXCEPT !.movieGenres[c.movie_id] = @ \cup {c.genre}]
    [] c.cmd = "sadd_genre_movies" ->
         [s EXCEPT !.genreMovies[c.genre] = @ \cup {c.movie_id}]
    [] c.cmd = "sadd_movie_all" ->
         [s EXCEPT !.movieAll = @ \cup {c.movie_id}]
    [] c.cmd = "zadd_popular" ->
         [s EXCEPT !.moviePopular = ZAdd(@, c.movie_id, c.score)]
    [] c.cmd = "zadd_vote_average" ->
         [s EXCEPT !.movieTopRated = ZAdd(@, c.movie_id, <<c.score, 1>>)]
    [] c.cmd = "zadd_user" ->
         [s EXCEPT !.userRatings[c.user_id] = ZAdd(@, c.movie_id, c.rating)]
    [] c.cmd = "zadd_movie" ->
         [s EXCEPT !.movieRatings[c.movie_id] = ZAdd(@, c.user_id, c.rating)]
    [] c.cmd = "hset_user" ->
         [s EXCEPT !.user[c.user_id] =
            HSet(@, [user_id |-> c.user_id, rating_count |-> c.rating_count])]
    [] c.cmd = "sadd_user_all" ->
         [s EXCEPT !.userAll = @ \cup {c.user_id}]
    [] c.cmd = "zadd_top_rated" ->
         [s EXCEPT !.movieTopRated = ZAdd(@, c.movie_id, Avg(c.total, c.count))]
    [] c.cmd = "hset_movie" ->
         [s EXCEPT !.movie[c.movie_id] =
            HSet(@, [user_rating_avg |-> Round2(c.total, c.count),
                     user_rating_count |-> c.count])]

RECURSIVE RunCommands(_, _)
RunCommands(pipe, s) ==
  IF pipe = << >> THEN s ELSE RunCommands(Tail(pipe), RunCommand(Head(pipe), s))

\* pipe.execute()
Execute(pipe) ==
  LET s == RunCommands(pipe, MoviesStore)
  IN /\ userRatings' = s.userRatings
     /\ movieRatings' = s.movieRatings
     /\ user' = s.user
     /\ userAll' = s.userAll
     /\ movieTopRated' = s.movieTopRated
     /\ movie' = s.movie
     /\ movieGenres' = s.movieGenres
     /\ genreMovies' = s.genreMovies
     /\ movieAll' = s.movieAll
     /\ moviePopular' = s.moviePopular

\* no command is sent
NothingSent ==
  UNCHANGED <<userRatings, movieRatings, user, userAll, movieTopRated, movie,
              movieGenres, genreMovies, movieAll, moviePopular>>

\* the local variables of import_ratings before the first line
NoRatings(rows) ==
  [rows |-> rows, count |-> 0, rating_sums |-> << >>, rating_counts |-> << >>,
   user_ratings |-> << >>, pipe |-> << >>, pipe_count |-> 0]

\* the test that closes a pass of each of the three loops: a full pipeline
\* is executed and a new one begun
ExecuteInBatches(w, threshold, back) ==
  /\ IF call[w].locals.pipe_count >= threshold
     THEN /\ Execute(call[w].locals.pipe)
          /\ call' = [call EXCEPT ![w].locals.pipe = << >>,
                                  ![w].locals.pipe_count = 0]
     ELSE /\ NothingSent
          /\ call' = call
  /\ Goto(w, back)

\* `if pipe_count > 0: pipe.execute()` after a loop, then `pipe = r.pipeline()`
ExecuteRemaining(w, items, next) ==
  /\ IF call[w].locals.pipe_count > 0
     THEN Execute(call[w].locals.pipe)
     ELSE NothingSent
  /\ call' = [call EXCEPT ![w].locals.pipe = << >>,
                          ![w].locals.pipe_count = 0,
                          ![w].locals.rows = items]
  /\ IF next = "idle" THEN Return(w) ELSE Goto(w, next)

\* lines of movies_metadata.csv: a movie without genres and with enough
\* votes, a movie of one genre, a line whose id is not a number, and a line
\* whose genre name is not a string
MovieRows ==
  {[id |-> "m1", isdigit |-> TRUE, genres |-> << >>, vote_average |-> 7, vote_count |-> 10],
   [id |-> "m1", isdigit |-> TRUE, genres |-> <<[name |-> "Drama", isstr |-> TRUE]>>,
    vote_average |-> 0, vote_count |-> 0],
   [id |-> "x", isdigit |-> FALSE, genres |-> << >>, vote_average |-> 0, vote_count |-> 0],
   [id |-> "m1", isdigit |-> TRUE, genres |-> <<[name |-> "5", isstr |-> FALSE]>>,
    vote_average |-> 0, vote_count |-> 0]}

MovieFiles == {File(rows) : rows \in SeqsUpTo(MovieRows, MaxMovieRows)}

\* `for genre in genres:` of import_movies: two SADDs a genre; genre.lower()
\* raises on a name that is no string, after the first SADD was queued
RECURSIVE QueueGenres(_, _, _)
QueueGenres(movie_id, genres, st) ==
  IF genres = << >> THEN st
  ELSE LET genre == Head(genres)
           first == [cmd |-> "sadd_genres", movie_id |-> movie_id, genre |-> genre.name]
       IN IF ~genre.isstr
          THEN [st EXCEPT !.pipe = Append(@, first), !.raised = TRUE]
          ELSE QueueGenres(movie_id, Tail(genres),
                 [st EXCEPT !.pipe = @ \o <<first,
                                          [cmd |-> "sadd_genre_movies", movie_id |-> movie_id,
                                           genre |-> GenreKey(genre.name)]>>,
                            !.pipe_count = @ + 2])

\* the body of the loop of import_movies over a line with a numeric id, up
\* to the threshold test
QueueMovie(row, st) ==
  LET hash == [st EXCEPT
                 !.pipe = Append(@, [cmd |-> "hset_movie_row", movie_id |-> row.id,
                                     mapping |-> [title |-> "Heat",
                                                  vote_average |-> row.vote_average,
                                                  vote_count |-> row.vote_count]]),
                 !.pipe_count = @ + 1]
      genres == QueueGenres(row.id, row.genres, hash)
      ranked == [genres EXCEPT
                   !.pipe = @ \o <<[cmd |-> "sadd_movie_all", movie_id |-> row.id],
                                   [cmd |-> "zadd_popular", movie_id |-> row.id, score |-> 1]>>,
                   !.pipe_count = @ + 2]
  IN IF genres.raised THEN genres
     ELSE IF row.vote_count >= 10
     THEN [ranked EXCEPT
             !.pipe = Append(@, [cmd |-> "zadd_vote_average", movie_id |-> row.id,
                                 score |-> row.vote_average]),
             !.pipe_count = @ + 1, !.count = @ + 1]
     ELSE [ranked EXCEPT !.count = @ + 1]

\* import_movies(limit=None): every line queues its commands, and the
\* threshold test closes the pass over a line unless the line was left by
\* `continue`, which the handler of an exception does as well
import_movies(w) ==
  \/ \E file \in MovieFiles \cup {Absent} :
       /\ Entry(w, "movies")
       /\ call' = [call EXCEPT ![w] =
                     [op |-> "import_movies", id |-> None, file |-> file,
                      locals |-> [rows |-> file.rows, count |-> 0, pipe |-> << >>,
                                  pipe_count |-> 0, raised |-> FALSE]]]
       /\ IF file.exists THEN Goto(w, "import_movies:row") ELSE Return(w)
       /\ NothingSent
  \/ /\ pc[w] = "import_movies:row"
     /\ call[w].locals.rows # << >>
     /\ LET st == call[w].locals
            row == Head(st.rows)
            queued == QueueMovie(row, [st EXCEPT !.rows = Tail(@)])
        IN IF ~row.isdigit
           THEN /\ call' = [call EXCEPT ![w].locals.rows = Tail(st.rows)]
                /\ Goto(w, "import_movies:row")
           ELSE /\ call' = [call EXCEPT ![w].locals = [queued EXCEPT !.raised = FALSE]]
                /\ Goto(w, IF queued.raised THEN "import_movies:row"
                                            ELSE "import_movies:batch")
     /\ NothingSent
  \/ /\ pc[w] = "import_movies:batch"
     /\ ExecuteInBatches(w, BATCH_SIZE, "import_movies:row")
  \/ /\ pc[w] = "import_movies:row"
     /\ call[w].locals.rows = << >>
     /\ ExecuteRemaining(w, << >>, "idle")

\* a loop body that ranks the movie with every rating it reads: the ZADD on
\* movie:top_rated is queued with the two of the rating
QueueRating_ranking(row, st) ==
  [rows |-> Tail(st.rows),
   count |-> st.count + 1,
   rating_sums |-> ItemsAdd(st.rating_sums, row.movieId, row.rating),
   rating_counts |-> ItemsAdd(st.rating_counts, row.movieId, 1),
   user_ratings |-> ItemsAdd(st.user_ratings, row.userId, 1),
   pipe |-> st.pipe \o
     <<[cmd |-> "zadd_user", user_id |-> row.userId,
        movie_id |-> row.movieId, rating |-> row.rating],
       [cmd |-> "zadd_movie", user_id |-> row.userId,
        movie_id |-> row.movieId, rating |-> row.rating],
       [cmd |-> "zadd_top_rated", movie_id |-> row.movieId,
        total |-> row.rating, count |-> 1]>>,
   pipe_count |-> st.pipe_count + 3]

\* the body of the loop of import_ratings over a line with a user, a movie
\* and a numeric rating, up to the threshold test
QueueRating(row, st) ==
  [rows |-> Tail(st.rows),
   count |-> st.count + 1,
   rating_sums |-> ItemsAdd(st.rating_sums, row.movieId, row.rating),
   rating_counts |-> ItemsAdd(st.rating_counts, row.movieId, 1),
   user_ratings |-> ItemsAdd(st.user_ratings, row.userId, 1),
   pipe |-> st.pipe \o
     <<[cmd |-> "zadd_user", user_id |-> row.userId,
        movie_id |-> row.movieId, rating |-> row.rating],
       [cmd |-> "zadd_movie", user_id |-> row.userId,
        movie_id |-> row.movieId, rating |-> row.rating]>>,
   pipe_count |-> st.pipe_count + 2]

\* import_ratings(limit=None, batch_size): the ratings are streamed into the
\* two ZSETs of each rating, then the user records and at last the averages
\* of the movies with MinRatings ratings are written, each in batches
import_ratings(w) ==
  \/ \E file \in RatingFiles \cup {Absent}, batch_size \in BatchSizes :
       /\ Entry(w, "movies")
       /\ call' = [call EXCEPT ![w] =
                     [op |-> "import_ratings", id |-> None, file |-> file,
                      batch_size |-> batch_size, locals |-> NoRatings(file.rows)]]
       /\ IF file.exists THEN Goto(w, "import_ratings:row") ELSE Return(w)
       /\ NothingSent
  \/ /\ pc[w] = "import_ratings:row"
     /\ call[w].locals.rows # << >>
     /\ LET st == call[w].locals
            row == Head(st.rows)
        IN IF ~row.parsable \/ row.userId = "" \/ row.movieId = ""
           THEN /\ call' = [call EXCEPT ![w].locals.rows = Tail(st.rows)]
                /\ Goto(w, "import_ratings:row")
           ELSE /\ call' = [call EXCEPT ![w].locals = QueueRating(row, st)]
                /\ Goto(w, "import_ratings:batch")
     /\ NothingSent
  \/ /\ pc[w] = "import_ratings:batch"
     /\ ExecuteInBatches(w, call[w].batch_size, "import_ratings:row")
  \/ /\ pc[w] = "import_ratings:row"
     /\ call[w].locals.rows = << >>
     /\ ExecuteRemaining(w, call[w].locals.user_ratings, "import_ratings:user")
  \/ /\ pc[w] = "import_ratings:user"
     /\ call[w].locals.rows # << >>
     /\ LET st == call[w].locals
            item == Head(st.rows)
        IN call' = [call EXCEPT
             ![w].locals.rows = Tail(st.rows),
             ![w].locals.pipe = st.pipe \o
                <<[cmd |-> "hset_user", user_id |-> item.key,
                   rating_count |-> item.value],
                  [cmd |-> "sadd_user_all", user_id |-> item.key]>>,
             ![w].locals.pipe_count = st.pipe_count + 2]
     /\ Goto(w, "import_ratings:user_batch")
     /\ NothingSent
  \/ /\ pc[w] = "import_ratings:user_batch"
     /\ ExecuteInBatches(w, call[w].batch_size, "import_ratings:user")
  \/ /\ pc[w] = "import_ratings:user"
     /\ call[w].locals.rows = << >>
     /\ ExecuteRemaining(w, call[w].locals.rating_sums, "import_ratings:movie")
  \/ /\ pc[w] = "import_ratings:movie"
     /\ call[w].locals.rows # << >>
     /\ LET st == call[w].locals
            item == Head(st.rows)
            n == ItemsValue(st.rating_counts, item.key)
        IN IF n >= MinRatings
           THEN /\ call' = [call EXCEPT
                     ![w].locals.rows = Tail(st.rows),
                     ![w].locals.pipe = st.pipe \o
                        <<[cmd |-> "zadd_top_rated", movie_id |-> item.key,
                           total |-> item.value, count |-> n],
                          [cmd |-> "hset_movie", movie_id |-> item.key,
                           total |-> item.value, count |-> n]>>,
                     ![w].locals.pipe_count = st.pipe_count + 2]
                /\ Goto(w, "import_ratings:movie_batch")
           ELSE /\ call' = [call EXCEPT ![w].locals.rows = Tail(st.rows)]
                /\ Goto(w, "import_ratings:movie")
     /\ NothingSent
  \/ /\ pc[w] = "import_ratings:movie_batch"
     /\ ExecuteInBatches(w, call[w].batch_size, "import_ratings:movie")
  \/ /\ pc[w] = "import_ratings:movie"
     /\ call[w].locals.rows = << >>
     /\ ExecuteRemaining(w, << >>, "idle")

\* import_movies alone
NextImportMovies ==
  \E w \in Writers : import_movies(w) /\ UNCHANGED <<scenario, orderVars, postVars, sensorVars, loaderVars, movieCast, movieCrew, actorMovies, directorMovies, movieKeywords>>

SpecImportMovies == InitMoviesApp /\ [][NextImportMovies]_vars

\* the streaming pass of a loader: its loop over the lines of the file
Streaming(w) ==
  pc[w] \in {"import_movies:row", "import_movies:batch",
             "import_ratings:row", "import_ratings:batch"}

\* the batch threshold of the running loader
Threshold(w) ==
  IF call[w].op = "import_ratings" THEN call[w].batch_size ELSE BATCH_SIZE

\* the most commands one line queues: HSET, two SADDs for the genre, SADD,
\* and two ZADDs in import_movies, two ZADDs in import_ratings
RowCommands(w) == IF call[w].op = "import_ratings" THEN 2 ELSE 6

\* the pending commands never number more than threshold - 1 + those of one
\* line, and fewer than the threshold when the next line is read
PendingIsBounded ==
  \A w \in Writers :
    Streaming(w) =>
      /\ call[w].locals.pipe_count <= Threshold(w) - 1 + RowCommands(w)
      /\ pc[w] \in {"import_movies:row", "import_ratings:row"} =>
           call[w].locals.pipe_count <= Threshold(w) - 1

\* the test after a line commits the pending commands exactly when they have
\* reached the threshold, and the commit leaves none pending
CommitAtThreshold ==
  \A w \in Writers :
    pc[w] \in {"import_movies:batch", "import_ratings:batch"} =>
      IF call[w].locals.pipe_count >= Threshold(w)
      THEN /\ call'[w].locals.pipe_count = 0
           /\ call'[w].locals.pipe = << >>
           /\ RunCommands(call[w].locals.pipe, MoviesStore) = MoviesStore'
      ELSE /\ call'[w].locals.pipe = call[w].locals.pipe
           /\ call'[w].locals.pipe_count = call[w].locals.pipe_count
           /\ MoviesStore' = MoviesStore

\* C21: during the streaming pass of a load step the pending commands are
\* committed as soon as their count reaches the batch threshold after the
\* commands of a line were appended; the count never exceeds
\* threshold - 1 + the commands of one line, and every commit resets it to zero
C21_CommitAsSoonAsThreshold == []PendingIsBounded /\ [][CommitAtThreshold]_vars

\* the commands of the rankings pipeline of import_order_items: a ZADD for
\* every product sold, one for every product with revenue and one for every
\* category with revenue
RankingCommands(st) ==
  Cardinality(DOMAIN st.product_sales) + Cardinality(DOMAIN st.product_revenue)
    + Cardinality(DOMAIN st.category_revenue)

\* C22: every batch a load step commits, the one that flushes the rankings
\* kept in memory after the rows included, holds at most threshold + the
\* commands of one row (three in import_order_items), however many distinct
\* products and categories the rows name
C22_FlushIsBounded ==
  \A w \in Writers :
    pc[w] = "import_order_items:rankings" =>
      RankingCommands(call[w].locals) <= BATCH_SIZE + 3

\* the four load steps that keep aggregates in memory and rank them
NextRankings ==
  \/ \E w \in Writers : import_order_items(w) /\ UNCHANGED <<postVars, movieVars, sensorVars>>
  \/ \E w \in Writers : import_ratings(w) /\ UNCHANGED <<scenario, orderVars, postVars, sensorVars, loaderVars, movieCast, movieCrew, actorMovies, directorMovies, movieKeywords>>
  \/ \E w \in Writers : import_readings(w) /\ UNCHANGED <<scenario, orderVars, postVars, movieVars, loaderVars>>
  \/ \E w \in Writers : import_posts(w) /\ UNCHANGED <<scenario, orderVars, movieVars, sensorVars, product, productSales, productRevenue, categoryRevenue>>

SpecRankings == Init /\ [][NextRankings]_vars

\* the rankings derived from the aggregates of a load step
Rankings ==
  <<productSales, productRevenue, categoryRevenue, movieTopRated,
    sensorAvgTemp, hashtagTrending>>

\* the steps of a load step that come after the closing pipe.execute() of
\* its streaming pass
AfterStreaming ==
  {"import_order_items:rankings", "import_readings:latest_and_averages",
   "import_posts:trending_and_users", "import_ratings:user",
   "import_ratings:user_batch", "import_ratings:movie", "import_ratings:movie_batch"}

\* the step that ends the streaming pass of import_ratings sends everything
\* still pending
LastBatchCommitted ==
  \A w \in Writers :
    (pc[w] = "import_ratings:row" /\ pc'[w] = "import_ratings:user") =>
      /\ call[w].locals.rows = << >>
      /\ MoviesStore' = RunCommands(call[w].locals.pipe, MoviesStore)
      /\ call'[w].locals.pipe = << >>

\* C23: in import_order_items, import_ratings, import_readings and
\* import_posts no entry of a ranking derived from the aggregates
\* (product:sales, product:revenue, category:revenue, movie:top_rated,
\* sensor:avg:temperature, hashtag:trending) is written before the last
\* batch of the streaming pass has been committed
C23_RankingsAfterStreaming ==
  [][/\ Rankings' # Rankings => \E w \in Writers : pc[w] \in AfterStreaming
     /\ LastBatchCommitted]_vars

\* import_ratings has written the average of a movie to movie:top_rated
\* after streaming five ratings in batches of two commands
C23_Witness ==
  \E w \in Writers :
    /\ Completed(w, "import_ratings")
    /\ call[w].batch_size = 2
    /\ call[w].locals.count = 5
    /\ "m1" \in DOMAIN movieTopRated

\* what update_movie_rating_stats computes for movie m from movie:<m>:ratings
StatsOf(m) ==
  [total |-> SumScores(movieRatings[m]), count |-> Cardinality(DOMAIN movieRatings[m])]

\* C31: the average and the count import_ratings writes for a movie (running
\* sum / running count over the rows, published from MinRatings rows on), and
\* its score in movie:top_rated, equal what update_movie_rating_stats
\* computes from the movie:<m>:ratings the same import stored, also when two
\* rows rate the same movie for the same user
C31_LoaderAgreesWithRecomputation ==
  \A w \in Writers :
    (Completed(w, "import_ratings") /\ call[w].file.exists) =>
      \A i \in 1..Len(call[w].locals.rating_counts) :
        LET m == call[w].locals.rating_counts[i].key
        IN call[w].locals.rating_counts[i].value >= MinRatings =>
             /\ movie[m].user_rating_count = StatsOf(m).count
             /\ movie[m].user_rating_avg = Round2(StatsOf(m).total, StatsOf(m).count)
             /\ movieTopRated[m] = Avg(StatsOf(m).total, StatsOf(m).count)

\* C32: between completed add_rating and delete_rating calls the
\* user_rating_count of a movie is the number of entries of
\* movie:<m>:ratings and user_rating_avg their average rounded to two
\* decimals, also after the last rating of the movie has been deleted (a
\* movie never rated has neither field)
C32_StatsFollowTheRatings ==
  (\A w \in Writers : pc[w] = "idle") =>
    \A m \in MovieIds :
      IF "user_rating_count" \in DOMAIN movie[m]
      THEN /\ movie[m].user_rating_count = StatsOf(m).count
           /\ StatsOf(m).count > 0
                => movie[m].user_rating_avg = Round2(StatsOf(m).total, StatsOf(m).count)
      ELSE StatsOf(m).count = 0

\* create_user(user_id): the record is written with a post_count of 0
\* (username and created_at left out), then the id joins social:user:all
create_user(w) ==
  \/ \E u \in Users :
       /\ Entry(w, "social_media")
       /\ call' = [call EXCEPT ![w] = [op |-> "create_user", id |-> u]]
       /\ socialUser' = [socialUser EXCEPT ![u] = HSet(@, [user_id |-> u, post_count |-> 0])]
       /\ Goto(w, "create_user:sadd")
       /\ UNCHANGED socialUserAll
  \/ /\ pc[w] = "create_user:sadd"
     /\ socialUserAll' = socialUserAll \cup {call[w].id}
     /\ Return(w)
     /\ UNCHANGED <<call, socialUser>>

\* users and their posts: create_user, create_post and delete_post
NextUsers ==
  \/ \E w \in Writers : create_user(w) /\ UNCHANGED <<scenario, orderVars, movieVars, sensorVars, product, productSales, productRevenue, categoryRevenue, post, postHashtags, hashtagPosts, hashtagTrending, userPosts, platformPosts, countryPosts, sentimentPosts, postAll, postTrending>>
  \/ \E w \in Writers : create_post(w) /\ UNCHANGED <<scenario, orderVars, movieVars, sensorVars, loaderVars>>
  \/ \E w \in Writers : delete_post(w) /\ UNCHANGED <<scenario, orderVars, movieVars, sensorVars, loaderVars>>

SpecUsers == InitSocial_media /\ [][NextUsers]_vars

\* C33: between completed create_user, create_post and delete_post calls
\* the post_count of a user is the number of entries of
\* social:user:<u>:posts, and never negative
C33_PostCountIsListLength ==
  (\A w \in Writers : pc[w] = "idle") =>
    \A u \in Users :
      /\ IntField(socialUser[u], "post_count") = Len(userPosts[u])
      /\ IntField(socialUser[u], "post_count") >= 0

\* C34: between completed create_order, update_order_status, add_review and
\* delete_order calls on any order ids, never created and deleted ones
\* included, every id in an order:status:<s> set is in order:all and has a
\* record with a customer_id: an update brings no order into existence
C34_StatusSetsHoldOrders ==
  AllIdle =>
    \A o \in OrderIds :
      StatusSetsOf(o) # {} =>
        /\ o \in orderAll
        /\ "customer_id" \in DOMAIN get_order(o)

(***************************************************************************)
(* Two callers of queries.py at once: their Redis commands interleave one  *)
(* by one                                                                  *)
(***************************************************************************)
\* two idle callers
InitTwoWriters ==
  /\ pc = [w \in {1, 2} |-> "idle"]
  /\ call = [w \in {1, 2} |-> NoCall]

\* the store after create_post('p1', 'u1', 'hello') on an empty store
InitTwoLikers ==
  /\ app = "social_media"
  /\ InitTwoWriters
  /\ scenario = NoScenario
  /\ InitOrders /\ InitCatalog /\ InitMovies /\ InitSensors
  /\ post = [p \in PostIds \cup LoadedPostIds |->
               IF p = "p1"
               THEN [platform |-> "twitter", country |-> "unknown", likes |-> 0,
                     retweets |-> 0, sentiment |-> "neutral", user_id |-> "u1",
                     engagement |-> 0]
               ELSE << >>]
  /\ postHashtags = [p \in PostIds \cup LoadedPostIds |-> {}]
  /\ socialUserAll = {}
  /\ hashtagPosts = [t \in Tags |-> {}]
  /\ hashtagTrending = << >>
  /\ userPosts = [u \in Users |-> IF u = "u1" THEN <<"p1">> ELSE << >>]
  /\ socialUser = [u \in Users |-> IF u = "u1" THEN [post_count |-> 1] ELSE << >>]
  /\ platformPosts = [x \in {Lower(x) : x \in Platforms} |-> IF x = "twitter" THEN {"p1"} ELSE {}]
  /\ countryPosts = [x \in {Lower(x) : x \in Countries} |-> IF x = "unknown" THEN {"p1"} ELSE {}]
  /\ sentimentPosts = [x \in {Lower(x) : x \in Sentiments} |-> IF x = "neutral" THEN {"p1"} ELSE {}]
  /\ postAll = {"p1"}
  /\ postTrending = << >>

NextTwoLikers ==
  \/ \E w \in Writers : like_post(w) /\ UNCHANGED <<scenario, orderVars, movieVars, sensorVars, loaderVars>>
  \/ \E w \in Writers : retweet_post(w) /\ UNCHANGED <<scenario, orderVars, movieVars, sensorVars, loaderVars>>

SpecTwoLikers == InitTwoLikers /\ [][NextTwoLikers]_vars

\* C35: when two callers have run like_post / retweet_post on the same post
\* at once and both calls are completed, the score of the post in
\* post:trending and its engagement field equal likes + 2 * retweets of the
\* record
C35_NoLostEngagement ==
  (/\ AllIdle
   /\ \A w \in Writers : call[w].op \in {"like_post", "retweet_post"}
   /\ \A v, w \in Writers : call[v].id = call[w].id) =>
    \A w \in Writers :
      /\ call[w].id \in DOMAIN postTrending
      /\ postTrending[call[w].id] =
           Engagement(IntField(get_post(call[w].id), "likes"),
                      IntField(get_post(call[w].id), "retweets"))
      /\ HGet(get_post(call[w].id), "engagement") = postTrending[call[w].id]

\* the store after create_order('o1', 'c1', 'created') on an empty store
InitDeleteAndUpdate ==
  /\ app = "e_commerce"
  /\ InitTwoWriters
  /\ scenario = [stage |-> 1, id |-> "o1", created |-> 0, shipped |-> 0]
  /\ InitCatalog /\ InitPosts /\ InitMovies /\ InitSensors
  /\ order = [o \in OrderIds |->
                IF o = "o1" THEN [customer_id |-> "c1", status |-> "created"] ELSE << >>]
  /\ custOrders = [c \in Customers |-> IF c = "c1" THEN <<"o1">> ELSE << >>]
  /\ statusSet = [s \in Statuses |-> IF s = "created" THEN {"o1"} ELSE {}]
  /\ orderAll = {"o1"}
  /\ reviewScores = << >>
  /\ orderReview = [o \in OrderIds |-> << >>]
  /\ orderItems = [o \in OrderIds |-> << >>]
  /\ orderPayments = [o \in OrderIds |-> << >>]

NextDeleteAndUpdate ==
  \/ \E w \in Writers : update_order_status(w) /\ UNCHANGED <<postVars, movieVars, sensorVars, loaderVars>>
  \/ \E w \in Writers : delete_order(w) /\ UNCHANGED <<postVars, movieVars, sensorVars, loaderVars>>

SpecDeleteAndUpdate == InitDeleteAndUpdate /\ [][NextDeleteAndUpdate]_vars

\* what every serial order of delete_order and update_order_status calls
\* leaves of order o: it is in the status set its record names, or, without
\* a record, in none
AsSomeSerialOrder(o) ==
  StatusSetsOf(o) = IF get_order(o) # << >> THEN {HGet(get_order(o), "status")} ELSE {}

\* C36: when delete_order(e) and update_order_status(e, s) have run at once
\* on the same order and both are completed, the store is as some serial
\* order of calls leaves it: e is in the status set its record names and,
\* once its record is gone, in no status set
C36_DeleteAndUpdateSerialize ==
  (/\ AllIdle
   /\ \E v, w \in Writers :
        /\ call[v].op = "delete_order" /\ call[w].op = "update_order_status"
        /\ call[v].id = call[w].id) =>
    \A w \in Writers : AsSomeSerialOrder(call[w].id)

(***************************************************************************)
(* The pipeline of a load step, line by line: import_credits              *)
(***************************************************************************)
\* most lines of credits.csv
MaxCreditRows == 3

\* longest movie:<id>:cast and movie:<id>:crew list a run may begin with
MaxCastLen == 2

\* lines of credits.csv: a line with one actor, a line with one director, a
\* line without an id, and a line whose actor name is not a string
CreditRows ==
  {[id |-> "m1", cast |-> <<[name |-> "Tom Hanks", isstr |-> TRUE]>>, crew |-> << >>],
   [id |-> "m1", cast |-> << >>,
    crew |-> <<[job |-> "Director", name |-> "Ron Howard", isstr |-> TRUE]>>],
   [id |-> "", cast |-> << >>, crew |-> << >>],
   [id |-> "m1", cast |-> <<[name |-> "5", isstr |-> FALSE]>>, crew |-> << >>]}

CreditFiles == {File(rows) : rows \in SeqsUpTo(CreditRows, MaxCreditRows)}

\* the keys import_credits writes
CreditsStore ==
  [movieCast |-> movieCast, actorMovies |-> actorMovies,
   movieCrew |-> movieCrew, directorMovies |-> directorMovies]

\* one queued command of import_credits, as the server runs it
RunCredit(c, s) ==
  CASE c.cmd = "lpush_cast" ->
         [s EXCEPT !.movieCast[c.movie_id] = LPush(@, c.name)]
    [] c.cmd = "sadd_actor" ->
         [s EXCEPT !.actorMovies[c.key] = @ \cup {c.movie_id}]
    [] c.cmd = "lpush_crew" ->
         [s EXCEPT !.movieCrew[c.movie_id] = LPush(@, CrewEntry(c.name))]
    [] c.cmd = "sadd_director" ->
         [s EXCEPT !.directorMovies[c.key] = @ \cup {c.movie_id}]

RECURSIVE RunCredits(_, _)
RunCredits(pipe, s) ==
  IF pipe = << >> THEN s ELSE RunCredits(Tail(pipe), RunCredit(Head(pipe), s))

\* pipe.execute() of import_credits
ExecuteCredits(pipe) ==
  LET s == RunCredits(pipe, CreditsStore)
  IN /\ movieCast' = s.movieCast
     /\ actorMovies' = s.actorMovies
     /\ movieCrew' = s.movieCrew
     /\ directorMovies' = s.directorMovies

\* `for actor in cast_data[:10]:` inside its own try: an LPUSH and a SADD an
\* actor; actor['name'].lower() raises on a name that is no string, after the
\* LPUSH was queued and before pipe_count is raised, and `except: pass` ends
\* the loop
RECURSIVE QueueCast(_, _, _)
QueueCast(movie_id, cast, st) ==
  IF cast = << >> THEN st
  ELSE LET actor == Head(cast)
           first == [cmd |-> "lpush_cast", movie_id |-> movie_id, name |-> actor.name]
       IN IF ~actor.isstr
          THEN [st EXCEPT !.pipe = Append(@, first)]
          ELSE QueueCast(movie_id, Tail(cast),
                 [st EXCEPT !.pipe = @ \o <<first,
                                          [cmd |-> "sadd_actor", movie_id |-> movie_id,
                                           key |-> PersonKey(actor.name)]>>,
                            !.pipe_count = @ + 2])

\* `for member in crew_data:` inside its own try, the same for a director
RECURSIVE QueueCrew(_, _, _)
QueueCrew(movie_id, crew, st) ==
  IF crew = << >> THEN st
  ELSE LET member == Head(crew)
           first == [cmd |-> "lpush_crew", movie_id |-> movie_id, name |-> member.name]
       IN IF member.job # "Director"
          THEN QueueCrew(movie_id, Tail(crew), st)
          ELSE IF ~member.isstr
          THEN [st EXCEPT !.pipe = Append(@, first)]
          ELSE QueueCrew(movie_id, Tail(crew),
                 [st EXCEPT !.pipe = @ \o <<first,
                                          [cmd |-> "sadd_director", movie_id |-> movie_id,
                                           key |-> PersonKey(member.name)]>>,
                            !.pipe_count = @ + 2])

\* the body of the loop of import_credits over a line with an id, up to the
\* threshold test
QueueCredits(row, st) ==
  [QueueCrew(row.id, row.crew, QueueCast(row.id, row.cast, st)) EXCEPT !.count = @ + 1]

\* import_credits(limit=None), line by line; `before` keeps the four keys as
\* the call found them
import_credits_lines(w) ==
  \/ \E file \in CreditFiles \cup {Absent} :
       /\ Entry(w, "movies")
       /\ \A m \in MovieIds : /\ Len(movieCast[m]) <= MaxCastLen
                              /\ Len(movieCrew[m]) <= MaxCastLen
       /\ call' = [call EXCEPT ![w] =
                     [op |-> "import_credits", id |-> None, file |-> file,
                      before |-> CreditsStore,
                      locals |-> [rows |-> file.rows, count |-> 0, pipe |-> << >>,
                                  pipe_count |-> 0]]]
       /\ IF file.exists THEN Goto(w, "import_credits:row") ELSE Return(w)
       /\ UNCHANGED <<movieCast, actorMovies, movieCrew, directorMovies>>
  \/ /\ pc[w] = "import_credits:row"
     /\ call[w].locals.rows # << >>
     /\ LET st == call[w].locals
            row == Head(st.rows)
        IN IF row.id = ""
           THEN /\ call' = [call EXCEPT ![w].locals.rows = Tail(st.rows)]
                /\ Goto(w, "import_credits:row")
           ELSE /\ call' = [call EXCEPT ![w].locals =
                              QueueCredits(row, [st EXCEPT !.rows = Tail(@)])]
                /\ Goto(w, "import_credits:batch")
     /\ UNCHANGED <<movieCast, actorMovies, movieCrew, directorMovies>>
  \/ /\ pc[w] = "import_credits:batch"
     /\ IF call[w].locals.pipe_count >= BATCH_SIZE
        THEN /\ ExecuteCredits(call[w].locals.pipe)
             /\ call' = [call EXCEPT ![w].locals.pipe = << >>,
                                     ![w].locals.pipe_count = 0]
        ELSE /\ UNCHANGED <<movieCast, actorMovies, movieCrew, directorMovies>>
             /\ call' = call
     /\ Goto(w, "import_credits:row")
  \/ /\ pc[w] = "import_credits:row"
     /\ call[w].locals.rows = << >>
     /\ IF call[w].locals.pipe_count > 0
        THEN /\ ExecuteCredits(call[w].locals.pipe)
             /\ call' = [call EXCEPT ![w].locals.pipe = << >>]
        ELSE /\ UNCHANGED <<movieCast, actorMovies, movieCrew, directorMovies>>
             /\ call' = call
     /\ Return(w)

\* import_credits alone
NextImportCredits ==
  \E w \in Writers : import_credits_lines(w) /\ UNCHANGED <<scenario, orderVars, postVars, sensorVars, loaderVars, movie, movieGenres, genreMovies, movieAll, movieTopRated, moviePopular, userRatings, movieRatings, user, userAll, movieKeywords>>

SpecImportCredits == InitMoviesApp /\ [][NextImportCredits]_vars

\* every command the lines of a file queue, in the order they are queued
RECURSIVE AllQueued(_)
AllQueued(rows) ==
  IF rows = << >> THEN << >>
  ELSE (IF Head(rows).id = "" THEN << >>
        ELSE QueueCredits(Head(rows), [pipe |-> << >>, pipe_count |-> 0, count |-> 0]).pipe)
       \o AllQueued(Tail(rows))

\* C37: when a load step has ended normally, no queued write is left
\* uncommitted, and the store is the one the step found with every write it
\* queued run once, in the order of queueing
C37_EveryQueuedWriteCommitted ==
  \A w \in Writers :
    (Completed(w, "import_credits") /\ call[w].file.exists) =>
      /\ call[w].locals.pipe = << >>
      /\ CreditsStore = RunCredits(AllQueued(call[w].file.rows), call[w].before)

\* an index still names post p though there is no record post:<p>
Dangling(p) ==
  /\ post[p] = << >>
  /\ \/ p \in postAll
     \/ p \in DOMAIN postTrending
     \/ \E u \in DOMAIN userPosts : InList(userPosts[u], p)
     \/ \E s \in DOMAIN sentimentPosts : p \in sentimentPosts[s]
     \/ \E k \in DOMAIN platformPosts : p \in platformPosts[k]
     \/ \E k \in DOMAIN countryPosts : p \in countryPosts[k]
     \/ \E t \in DOMAIN hashtagPosts : p \in hashtagPosts[t]
     \/ postHashtags[p] # {}

\* a call of delete_post(p) that found no record, from entry to return
DeletesAbsentPost(w) ==
  /\ pc[w] = "idle"
  /\ call'[w] # call[w]
  /\ call'[w].op = "delete_post"
  /\ post[call'[w].id] = << >>

\* C38: delete_post(p) on a post id with no record changes no key of the
\* store, dangling index entries of p included
C38_AbsentPostChangesNothing ==
  [][\A w \in Writers : DeletesAbsentPost(w) => (pc'[w] = "idle" /\ UNCHANGED postVars)]_vars

C38_Witness ==
  \E w \in Writers :
    /\ Completed(w, "delete_post")
    /\ call[w].post = << >>
    /\ Dangling(call[w].id)

\* movies/queries.py get_movie_cast: r.lrange(f"movie:{movie_id}:cast", 0, limit-1)
get_movie_cast(m, limit) == LRange(movieCast[m], 0, limit - 1)

\* the order of the post ids as byte strings
PostKey(p) == CASE p = "1" -> 1 [] p = "2" -> 2 [] OTHER -> 3

\* social_media/queries.py trending_posts: the entries it prints
trending_posts(n) ==
  ZRevRange(postTrending, [p \in DOMAIN postTrending |-> PostKey(p)], 0, n - 1)

\* C39: a read bounded by limit (by n) returns at most limit (n) entries, for
\* every limit >= 0, and none for limit = 0: get_customer_orders,
\* get_user_posts, get_movie_cast, top_selling_products, trending_posts
C39_AtMostLimit ==
  /\ \A limit \in 0..MaxLimit :
       /\ \A c \in DOMAIN custOrders : Len(get_customer_orders(c, limit)) <= limit
       /\ \A u \in DOMAIN userPosts : Len(get_user_posts(u, limit)) <= limit
       /\ \A m \in DOMAIN movieCast : Len(get_movie_cast(m, limit)) <= limit
  /\ \A n \in 0..MaxTop : Len(trending_posts(n)) <= n
  /\ \A w \in Writers :
       Completed(w, "top_selling_products") => Len(call[w].result) <= call[w].n

(***************************************************************************)
(* movies/queries.py recommend_by_genre                                    *)
(***************************************************************************)
RecMovies == {"m1", "m2"}
RecGenres == {"Drama", "war"}
\* the ratings user u1 has given
RecRatings == {0, 3, 5}

\* ZSCORE key member, the reply as a sequence: the score, or nothing (None)
\* for a member the set does not hold
ZScore(z, m) == IF m \in DOMAIN z THEN <<z[m]>> ELSE << >>

\* `not r.zscore(...)`: Python's `not` of None and of the float 0.0 is True
NotScore(score) == score = << >> \/ score = <<0>>

\* the orders in which the members of a set may be read
Perms(S) ==
  {f \in [1..Cardinality(S) -> S] : \A i, j \in 1..Cardinality(S) : i # j => f[i] # f[j]}

\* r.zrangebyscore(f"user:{user_id}:ratings", 4, 5)
LikedMovies(u) ==
  {m \in DOMAIN userRatings[u] : 4 <= userRatings[u][m] /\ userRatings[u][m] <= 5}

\* liked_genres: the genres of the liked movies, in lower case
LikedGenres(u) == {GenreKey(g) : g \in UNION {movieGenres[m] : m \in LikedMovies(u)}}

\* `for movie_id in genre_movies:` a movie without a score joins the
\* recommendations, and the loop is left once they number limit
RECURSIVE ScanGenre(_, _, _, _)
ScanGenre(u, movies, recommendations, limit) ==
  IF movies = << >> THEN recommendations
  ELSE IF NotScore(ZScore(userRatings[u], Head(movies)))
  THEN LET added == recommendations \cup {Head(movies)}
       IN IF Cardinality(added) >= limit THEN added
          ELSE ScanGenre(u, Tail(movies), added, limit)
  ELSE ScanGenre(u, Tail(movies), recommendations, limit)

\* `for genre in liked_genres:` with the test that follows the inner loop;
\* reply[g] is the order in which SMEMBERS replies the movies of genre g
RECURSIVE ScanGenres(_, _, _, _, _)
ScanGenres(u, genres, reply, recommendations, limit) ==
  IF genres = << >> THEN recommendations
  ELSE LET genre == Head(genres)
           genre_movies == SelectSeq(reply[genre], LAMBDA m : m \in genreMovies[genre])
           found == ScanGenre(u, genre_movies, recommendations, limit)
       IN IF Cardinality(found) >= limit THEN found
          ELSE ScanGenres(u, Tail(genres), reply, found, limit)

\* recommend_by_genre(user_id, limit): the value it returns, a list made of
\* a set; the sets are read in any order
recommend_by_genre(w) ==
  \E u \in MovieUsers, limit \in 0..MaxLimit :
    /\ Entry(w, "movies")
    /\ IF LikedMovies(u) = {}
       THEN call' = [call EXCEPT ![w] =
                       [op |-> "recommend_by_genre", id |-> None, user_id |-> u,
                        limit |-> limit, result |-> {}]]
       ELSE \E genres \in Perms(LikedGenres(u)),
               reply \in [LikedGenres(u) -> Perms(DOMAIN movieGenres)] :
              call' = [call EXCEPT ![w] =
                         [op |-> "recommend_by_genre", id |-> None, user_id |-> u,
                          limit |-> limit,
                          result |-> ScanGenres(u, genres, reply, {}, limit)]]
    /\ Return(w)
    /\ UNCHANGED movieVars

\* a store of two movies made by create_movie, of which user u1 has rated
\* some by add_rating
InitRecommend ==
  /\ app = "movies"
  /\ InitWriter
  /\ InitOrders /\ InitCatalog /\ InitPosts /\ InitSensors
  /\ movieGenres \in [RecMovies -> SUBSET RecGenres]
  /\ genreMovies = [k \in {GenreKey(g) : g \in RecGenres} |->
                      {m \in RecMovies : \E g \in movieGenres[m] : GenreKey(g) = k}]
  /\ \E rated \in SUBSET RecMovies :
       \E ratings \in [rated -> RecRatings] :
         /\ userRatings = [u \in MovieUsers |-> IF u = "u1" THEN ratings ELSE << >>]
         /\ movieRatings = [m \in RecMovies |->
                              IF m \in rated THEN [u \in {"u1"} |-> ratings[m]] ELSE << >>]
         /\ movie = [m \in RecMovies |->
                       IF m \in rated
                       THEN [title |-> "Heat", vote_average |-> 0, vote_count |-> 0,
                             user_rating_avg |-> Round2(ratings[m], 1),
                             user_rating_count |-> 1]
                       ELSE [title |-> "Heat", vote_average |-> 0, vote_count |-> 0]]
         /\ user = [u \in MovieUsers |->
                      IF u = "u1" /\ rated # {} THEN [user_id |-> "u1"] ELSE << >>]
         /\ userAll = IF rated # {} THEN {"u1"} ELSE {}
  /\ movieAll = RecMovies
  /\ movieTopRated = << >>
  /\ moviePopular = << >>
  /\ movieCast = [m \in RecMovies |-> << >>]
  /\ movieCrew = [m \in RecMovies |-> << >>]
  /\ actorMovies = [a \in {PersonKey(n) : n \in ActorNames} |-> {}]
  /\ directorMovies = [d \in {PersonKey(n) : n \in DirectorNames} |-> {}]
  /\ movieKeywords = [m \in RecMovies |-> {}]

NextRecommend ==
  \E w \in Writers : recommend_by_genre(w) /\ UNCHANGED <<scenario, orderVars, postVars, sensorVars, loaderVars>>

SpecRecommend == InitRecommend /\ [][NextRecommend]_vars

\* movies a and b have a genre in common, letter case apart
ShareGenre(a, b) ==
  \E g \in movieGenres[a], h \in movieGenres[b] : GenreKey(g) = GenreKey(h)

\* C40: recommend_by_genre(u, limit) returns no movie u has rated, whatever
\* the rating, and only movies that share a genre with a movie u rated from
\* 4 to 5
C40_RecommendsUnratedOfLikedGenres ==
  \A w \in Writers :
    Completed(w, "recommend_by_genre") =>
      \A m \in call[w].result :
        /\ m \notin DOMAIN userRatings[call[w].user_id]
        /\ \E liked \in LikedMovies(call[w].user_id) : ShareGenre(m, liked)

=============================================================================
